---- MODULE Spec2Model ----
(***************************************************************************)
(* Mantis price tracker: the product store (products, price_history), the  *)
(* on-demand fetch (POST /products/fetch), the batch sweep                 *)
(* (refresh_all_products), the owner's delete and the interval scheduler.  *)
(*                                                                         *)
(* One asyncio event loop runs the fetch handlers and the sweeps: a        *)
(* coroutine is only interleaved with the others at its awaits (the render *)
(* and the extraction), so everything between two awaits is one action.    *)
(***************************************************************************)
EXTENDS Integers, Sequences, FiniteSets, TLC

VARIABLES
    products,       \* committed rows of table products
    price_history,  \* committed rows of table price_history
    clock,          \* the last value now_local() returned
    fetch,          \* the in-flight POST /products/fetch requests, by slot
    sweep,          \* the refresh_all_products coroutines, by slot
    event,          \* the last outcome reported: an HTTP status of
                    \* POST /products/fetch, or a sweep's log line
    deleting,       \* the DELETE /products/{id} request in its worker thread
    provider_configs, \* committed rows of table provider_configs
    env_key,        \* whether GOOGLE_API_KEY is set in the environment
    reply,          \* the last response a provider returned, and its parses
    listing,        \* what the last GET /products returned
    page_content,   \* the rendered page extract_product_data was given
    cleaned,        \* what _clean_html made of it
    html_content,   \* the text put into the provider's prompt, and for whom
    users,          \* committed rows of table users
    pending,        \* Redis: the OTP of pending_registration:<email>
    deletion,       \* Redis: the OTP of pending_deletion:<user id>
    auth,           \* the /auth requests in their worker threads, by slot
    saved           \* the last POST /providers/config and its answer

vars == <<products, price_history, clock, fetch, sweep, event, deleting,
          provider_configs, env_key, reply, listing,
          page_content, cleaned, html_content,
          users, pending, deletion, auth, saved>>

\* what only the /auth routes and POST /providers/config write
accountVars == <<users, pending, deletion, auth, saved>>

\* what only the normalizer and the hand-over to the provider write
textVars == <<page_content, cleaned, html_content>>

\* what the product routes and the sweep never write
configVars == <<provider_configs, env_key>>

----------------------------------------------------------------------------
(* Bounds of the model *)

\* at most MaxClock transactions that write a timestamp commit
MaxClock == 3

Users == {1, 2}

\* the addresses accounts are registered with
Emails == {"a@x", "b@x"}

\* generate_otp: 6-digit codes (two of them), and no code stored
Otps == {"111111", "222222"}
NoOtp == ""

\* the accounts of the two users of the product store
Accounts ==
    {[id |-> 1, email |-> "a@x"], [id |-> 2, email |-> "b@x"]}

\* at most two /auth requests in their worker threads
AuthSlots == {1, 2}

\* no request in the slot
IdleAuth ==
    [op |-> "none", pc |-> "idle", email |-> "", otp |-> NoOtp, user |-> 0]

\* no POST /providers/config yet
NoSave ==
    [user_id |-> 0, provider_name |-> "", api_key |-> "", model_name |-> "",
     status |-> ""]

\* at most two POST /products/fetch requests in flight, at most two
\* refresh_all_products coroutines
FetchSlots == {1, 2}
SweepSlots == {1, 2}

Urls == {"http://n1/p", "http://n2/p"}

\* the (user, url) pairs the requests of the model ask for
Requests ==
    {<<1, "http://n1/p">>, <<1, "http://n2/p">>, <<2, "http://n1/p">>}

\* one URL, asked for by two users
RequestsSameUrl ==
    {<<1, "http://n1/p">>, <<2, "http://n1/p">>}

\* one user, one URL
RequestsOne ==
    {<<1, "http://n1/p">>}

\* urlparse(url).netloc
Netloc(url) ==
    IF url = "http://n1/p" THEN "n1" ELSE "n2"

\* max_instances of the scheduler job
MaxInstances == 1

\* what a provider may return and ProductExtractionSchema accepts
\* (website "" stands for None: both are falsy)
Extractions ==
    { [title |-> "A", price |-> 100, currency |-> "USD",
       stock_status |-> "In Stock", website |-> "shop"],
      [title |-> "B", price |-> 80, currency |-> "USD",
       stock_status |-> "Out of Stock", website |-> ""] }

\* results with a price of either sign: the schema's price is a float, and
\* nothing between the provider and the store looks at its sign
SignedExtractions ==
    { [title |-> "A", price |-> p, currency |-> "USD",
       stock_status |-> "In Stock", website |-> ""] : p \in {-5, 100} }

NoExtraction ==
    [title |-> "", price |-> 0, currency |-> "", stock_status |-> "", website |-> ""]

\* no row (None); last_checked 0 stands for NULL
NoRow ==
    [id |-> 0, user_id |-> 0, url |-> "", title |-> "", domain |-> "",
     stock_status |-> "", last_checked |-> 0]

----------------------------------------------------------------------------
(* The store *)

SetMax(S) ==
    IF S = {} THEN 0 ELSE CHOOSE m \in S : \A x \in S : x <= m

\* INTEGER PRIMARY KEY of the default SQLite store: one more than the largest id
NextId(rows) ==
    SetMax({r.id : r \in rows}) + 1

\* UniqueConstraint("user_id", "url"): the columns that identify a Product
ProductKeyWithId(row) ==
    <<row.user_id, row.url, row.id>>

ProductKey(row) ==
    <<row.user_id, row.url>>

\* db.query(Product).filter(url == ..., user_id == ...).first()
FindProduct(rows, owner, url) ==
    LET found == {r \in rows : ProductKey(r) = <<owner, url>>}
    IN  IF found = {} THEN NoRow
        ELSE CHOOSE r \in found : \A o \in found : r.id <= o.id

\* the INSERT of a Product row violates uix_user_url
UniqueViolation(rows, row) ==
    \E r \in rows : ProductKey(r) = ProductKey(row)

\* session.get by primary key (the reload of an expired instance)
RowById(rows, id) ==
    IF \E r \in rows : r.id = id
    THEN CHOOSE r \in rows : r.id = id
    ELSE NoRow

HistoryOf(hist, pid) ==
    {h \in hist : h.product_id = pid}

Store(p, h) ==
    [products |-> p, price_history |-> h]

----------------------------------------------------------------------------
(* Provider configuration and extract_product_data *)

\* PROVIDER_ADAPTERS
ProviderAdapters == {"groq"}

\* the provider names, credentials and models the users of the model submit
ProviderNames == {"groq", "openai"}
ApiKeys == {"k1"}
ModelNames == {"m1"}

\* no provider resolved (yet)
NoCall ==
    [user_id |-> 0, provider_name |-> "", api_key |-> "", model_name |-> ""]

\* the fallback: Google Gemini with the environment's GOOGLE_API_KEY
DefaultCall ==
    [user_id |-> 0, provider_name |-> "google", api_key |-> "env",
     model_name |-> "gemini"]

\* a variant that inserts the new row beside the old one
SaveConfigKeepOld(configs, owner, name, key, model) ==
    configs \cup {[user_id |-> owner, provider_name |-> name,
                   api_key |-> key, model_name |-> model, is_active |-> TRUE]}

\* save_provider_config: the user's row for this provider is deleted and a new
\* active one inserted (a row is known by its user and provider, which are
\* unique together; its id is read nowhere)
SaveConfig(configs, owner, name, key, model) ==
    LET kept == {c \in configs : ~(c.user_id = owner /\ c.provider_name = name)}
    IN  kept \cup {[user_id |-> owner, provider_name |-> name,
                    api_key |-> key, model_name |-> model, is_active |-> TRUE]}

\* POST /providers/config: 400 for a provider without an adapter
SaveProviderConfig(owner, name, key, model) ==
    /\ provider_configs' = IF name \in ProviderAdapters
                           THEN SaveConfig(provider_configs, owner, name, key, model)
                           ELSE provider_configs
    /\ UNCHANGED <<products, price_history, clock, fetch, sweep, event, deleting,
                   env_key, reply, listing, textVars, accountVars>>

\* the credentials and models saved one after the other
SavedKeys == {"k1", "k2"}
SavedModels == {"m1", "m2"}

\* POST /providers/config with its answer: 400 for a provider without an
\* adapter (lines 78-82), else the row is replaced and returned (lines 85-103)
SaveProviderConfigAnswered(owner, name, key, model) ==
    /\ provider_configs' = IF name \in ProviderAdapters
                           THEN SaveConfig(provider_configs, owner, name, key, model)
                           ELSE provider_configs
    /\ saved' = [user_id |-> owner, provider_name |-> name, api_key |-> key,
                 model_name |-> model,
                 status |-> IF name \in ProviderAdapters THEN "200" ELSE "400"]
    /\ UNCHANGED <<products, price_history, clock, fetch, sweep, event, deleting,
                   env_key, reply, listing, textVars,
                   users, pending, deletion, auth>>

ActiveConfigs(configs) ==
    {c \in configs : c.is_active}

\* a variant that falls back without looking at the environment
ResolveProviderAlwaysDefault(configs, env) ==
    IF ActiveConfigs(configs) # {}
    THEN {[user_id |-> c.user_id, provider_name |-> c.provider_name,
           api_key |-> c.api_key, model_name |-> c.model_name] :
             c \in ActiveConfigs(configs)}
    ELSE {DefaultCall}

\* agent.py lines 57-63 and 107-109: the calls the resolution can make.
\* filter(is_active == True).first() has no owner filter and no ORDER BY: any
\* active row may be the first; without one the fallback needs GOOGLE_API_KEY;
\* the empty set is the RuntimeError of line 63
ResolveProvider(configs, env) ==
    IF ActiveConfigs(configs) # {}
    THEN {[user_id |-> c.user_id, provider_name |-> c.provider_name,
           api_key |-> c.api_key, model_name |-> c.model_name] :
             c \in ActiveConfigs(configs)}
    ELSE IF env THEN {DefaultCall} ELSE {}

\* Literal["In Stock", "Out of Stock", "Unknown"]
StockStatuses == {"In Stock", "Out of Stock", "Unknown"}

RequiredFields == {"title", "price", "currency", "stock_status"}

\* a provider's answer that is the JSON object asked for
WellFormed ==
    [fences |-> 0, json |-> TRUE, fields |-> RequiredFields, stock |-> "In Stock"]

\* what a provider may answer: the object asked for, bare or wrapped in one
\* or two pairs of code fences, text that is not JSON, an object without the
\* price, an object with a stock status of its own
Responses ==
    { WellFormed,
      [WellFormed EXCEPT !.fences = 1],
      [WellFormed EXCEPT !.fences = 2],
      [WellFormed EXCEPT !.json = FALSE],
      [WellFormed EXCEPT !.fences = 1, !.fields = RequiredFields \ {"price"}],
      [WellFormed EXCEPT !.fields = RequiredFields \ {"price"}],
      [WellFormed EXCEPT !.stock = "Sold"] }

NoReply ==
    [fences |-> 0, json |-> FALSE, fields |-> {}, stock |-> "", parses |-> 0]

\* json.loads(content)
Loads(r) ==
    r.json /\ r.fences = 0

\* groq.py lines 88-91: the text between the first fence and the next one
StripFence(r) ==
    [r EXCEPT !.fences = IF @ > 0 THEN @ - 1 ELSE 0]

\* groq.py lines 83-93: parse, and on JSONDecodeError strip and parse again
GroqParse(r) ==
    IF Loads(r) THEN [ok |-> TRUE, parses |-> 1]
    ELSE [ok |-> Loads(StripFence(r)), parses |-> 2]

\* a variant whose schema takes any string as the stock status
ToSchemaAnyStock(r) ==
    LET stock == IF "stock_status" \in r.fields THEN r.stock ELSE "Unknown"
    IN  [ok |-> TRUE,
         e  |-> [title |-> IF "title" \in r.fields THEN "A" ELSE "Unknown Product",
                 price |-> IF "price" \in r.fields THEN 100 ELSE 0,
                 currency |-> IF "currency" \in r.fields THEN "USD" ELSE "USD",
                 stock_status |-> stock,
                 website |-> ""]]

\* agent.py lines 123-129: a missing key gets a default, then the schema
\* validates the stock status
ToSchema(r) ==
    LET stock == IF "stock_status" \in r.fields THEN r.stock ELSE "Unknown"
    IN  [ok |-> stock \in StockStatuses,
         e  |-> [title |-> IF "title" \in r.fields THEN "A" ELSE "Unknown Product",
                 price |-> IF "price" \in r.fields THEN 100 ELSE 0,
                 currency |-> IF "currency" \in r.fields THEN "USD" ELSE "USD",
                 stock_status |-> stock,
                 website |-> ""]]

\* agent.py lines 92-102: the fallback's structured output is validated
\* against ProductExtraction, which has no defaults for the required fields
StructuredOutput(r) ==
    [ok |-> Loads(r) /\ RequiredFields \subseteq r.fields /\ r.stock \in StockStatuses,
     e  |-> ToSchema(r).e]

\* what extract_product_data makes of the provider's answer r
ExtractOutcome(call, r) ==
    IF call.provider_name = "groq"
    THEN [ok     |-> GroqParse(r).ok /\ ToSchema(r).ok,
          e      |-> ToSchema(r).e,
          parses |-> GroqParse(r).parses]
    ELSE [ok     |-> StructuredOutput(r).ok,
          e      |-> StructuredOutput(r).e,
          parses |-> 1]

----------------------------------------------------------------------------
(* POST /products/fetch: the persistence section, lines 85-119 *)

\* domain = structured.website, else the URL's netloc
FetchDomain(url, e) ==
    IF e.website # "" THEN e.website ELSE Netloc(url)

\* look the Product up, create it when absent, overwrite its fields, flush
FetchUpsert(rows, owner, url, e, now) ==
    LET found == FindProduct(rows, owner, url)
        base  == IF found = NoRow
                 THEN [NoRow EXCEPT !.id = NextId(rows), !.user_id = owner, !.url = url]
                 ELSE found
        row   == [base EXCEPT !.title = e.title,
                              !.domain = FetchDomain(url, e),
                              !.stock_status = e.stock_status,
                              !.last_checked = now]
    IN  [ok      |-> found # NoRow \/ ~UniqueViolation(rows, row),
         rows    |-> (rows \ {found}) \cup {row},
         product |-> row]

\* a variant that keeps one observation per Product, replacing the earlier ones
FetchAppendReplace(hist, product, e, now) ==
    (hist \ HistoryOf(hist, product.id))
       \cup {[id |-> NextId(hist), product_id |-> product.id,
               price |-> e.price, currency |-> e.currency, timestamp |-> now]}

\* a variant that stamps every observation with the same instant
FetchAppendUnstamped(hist, product, e, now) ==
    hist \cup {[id |-> NextId(hist), product_id |-> product.id,
                price |-> e.price, currency |-> e.currency, timestamp |-> 1]}

\* db.add(PriceHistory(product_id=product.id, price, currency, timestamp=now))
FetchAppend(hist, product, e, now) ==
    hist \cup {[id |-> NextId(hist), product_id |-> product.id,
                price |-> e.price, currency |-> e.currency, timestamp |-> now]}

\* the store faults a request can meet: the flush of the Product, the INSERT
\* of the observation, the COMMIT
FetchFaults == {"none", "flush", "insert", "commit"}

\* a variant in which the flush of the Product is already durable
SessionOutcomeAutocommit(committed, flushed, final, fault) ==
    CASE fault = "none"  -> final
      [] fault = "flush" -> committed
      [] OTHER           -> flushed

\* the request's session: db.commit() makes everything durable; an exception
\* leaves the handler and get_db's finally closes the session, which rolls back
SessionOutcome(committed, flushed, final, fault) ==
    IF fault = "none" THEN final ELSE committed

FetchPersist(store, owner, url, e, now, fault) ==
    LET up      == FetchUpsert(store.products, owner, url, e, now)
        flushed == Store(up.rows, store.price_history)
        final   == Store(up.rows, FetchAppend(store.price_history, up.product, e, now))
        met     == IF up.ok THEN fault ELSE "flush"
    IN  [store  |-> SessionOutcome(store, flushed, final, met),
         status |-> IF met = "none" THEN "200" ELSE "500"]

\* a variant that answers every failure alike
FetchFailureStatusSame(stage) ==
    "400"

\* HTTPException(400) for the render, HTTPException(502) for the extraction
FetchFailureStatus(stage) ==
    IF stage = "rendering" THEN "400" ELSE "502"

\* call: the provider extract_product_data resolved for this request
IdleFetch ==
    [pc |-> "idle", owner |-> 0, url |-> "", call |-> NoCall]

\* a variant in which a render runs on the event loop and holds it
LoopFreeBetweenRenders(sw, ft) ==
    /\ \A s \in DOMAIN sw : sw[s].pc # "rendering"
    /\ \A f \in DOMAIN ft : ft[f].pc # "rendering"

\* asyncio.to_thread: the blocking render runs in a worker thread, so the
\* event loop is free to take requests whatever renders are in flight
LoopFree(sw, ft) ==
    TRUE

\* the request arrives and awaits fetch_page_content
FetchStart(f, owner, url) ==
    /\ LoopFree(sweep, fetch)
    /\ fetch[f].pc = "idle"
    /\ fetch' = [fetch EXCEPT ![f] = [pc |-> "rendering", owner |-> owner, url |-> url,
                                        call |-> NoCall]]
    /\ UNCHANGED <<products, price_history, clock, sweep, event, deleting,
                 configVars, reply, listing, textVars, accountVars>>

\* the render returns: on failure 400; else extract_product_data resolves the
\* provider (502 when there is none) and awaits its answer
FetchRenderReturn(f, ok) ==
    /\ fetch[f].pc = "rendering"
    /\ LET calls == ResolveProvider(provider_configs, env_key)
       IN  IF ok /\ calls # {}
           THEN /\ \E c \in calls :
                      fetch' = [fetch EXCEPT ![f].pc = "extracting", ![f].call = c]
                /\ UNCHANGED event
           ELSE /\ fetch' = [fetch EXCEPT ![f] = IdleFetch]
                /\ event' = FetchFailureStatus(IF ok THEN "extracting" ELSE "rendering")
    /\ UNCHANGED <<products, price_history, clock, sweep, deleting,
                 configVars, reply, listing, textVars, accountVars>>

\* extract_product_data raises: 502
FetchReject(f) ==
    /\ fetch[f].pc = "extracting"
    /\ fetch' = [fetch EXCEPT ![f] = IdleFetch]
    /\ event' = FetchFailureStatus("extracting")
    /\ UNCHANGED <<products, price_history, clock, sweep, deleting,
                 configVars, listing, textVars, accountVars>>

\* the provider call fails (transport, status): 502
FetchExtractFail(f) ==
    /\ FetchReject(f)
    /\ UNCHANGED reply

\* extract_product_data returned e: lines 85-124 run without an await
FetchAnswer(f, e, fault) ==
    /\ fetch[f].pc = "extracting"
    /\ clock < MaxClock
    /\ LET now == clock + 1
           out == FetchPersist(Store(products, price_history),
                               fetch[f].owner, fetch[f].url, e, now, fault)
       IN  /\ clock' = IF out.status = "200" THEN now ELSE clock
           /\ products' = out.store.products
           /\ price_history' = out.store.price_history
           /\ fetch' = [fetch EXCEPT ![f] = IdleFetch]
           /\ event' = out.status
    /\ UNCHANGED <<sweep, deleting, configVars, listing, textVars, accountVars>>

\* the extraction returns e (the provider's answer already validated)
FetchExtractReturn(f, e, fault) ==
    /\ FetchAnswer(f, e, fault)
    /\ UNCHANGED reply

\* the provider answers r: extract_product_data parses and validates it, and
\* the handler goes on with the result or answers 502
FetchProviderReturn(f, r, fault) ==
    LET out == ExtractOutcome(fetch[f].call, r)
    IN  /\ fetch[f].pc = "extracting"
        /\ reply' = [fences |-> r.fences, json |-> r.json, fields |-> r.fields,
                     stock |-> r.stock, parses |-> out.parses]
        /\ IF out.ok THEN FetchAnswer(f, out.e, fault) ELSE FetchReject(f)

----------------------------------------------------------------------------
(* DELETE /products/{product_id} *)

\* delete_product is a plain def: it runs in a worker thread, beside the event
\* loop. row, history: the Product and the observations its session loaded
IdleDelete ==
    [pc |-> "idle", row |-> NoRow, history |-> {}]

\* a variant that deletes the loaded observations and leaves the Product row
DeleteCascadeHistoryOnly(store, row, history) ==
    Store(store.products,
          {h \in store.price_history : h.id \notin {l.id : l \in history}})

\* the flush of db.commit(): one DELETE per loaded observation, by primary
\* key, then the DELETE of the Product row, by primary key
DeleteCascade(store, row, history) ==
    Store({r \in store.products : r.id # row.id},
          {h \in store.price_history : h.id \notin {l.id : l \in history}})

\* a variant that looks the Product up by its id alone
AnyProduct(rows, owner, pid) ==
    RowById(rows, pid)

\* lines 166-169: the Product with the id asked for, among the caller's
OwnProduct(rows, owner, pid) ==
    RowById({r \in rows : r.user_id = owner}, pid)

\* DELETE /products/{id} with its answer when it is refused: 404 unless the
\* Product exists and belongs to the caller (lines 170-174); otherwise
\* db.delete(product) loads product.price_history for the cascade. by and
\* asked: current_user.id and product_id of the request
DeleteProductAnswered(owner, pid) ==
    LET row == OwnProduct(products, owner, pid)
    IN  /\ LoopFree(sweep, fetch)
        /\ deleting.pc # "loaded"
        /\ deleting' = [pc |-> IF row = NoRow THEN "refused" ELSE "loaded",
                        row |-> row,
                        history |-> HistoryOf(price_history, row.id),
                        by |-> owner, asked |-> pid]
        /\ event' = IF row = NoRow THEN "404" ELSE event
        /\ UNCHANGED <<products, price_history, clock, fetch, sweep,
                       configVars, reply, listing, textVars, accountVars>>

\* lines 166-176: 404 unless the Product exists and belongs to the caller;
\* db.delete(product) loads product.price_history for the cascade
DeleteProduct(owner, pid) ==
    LET row == OwnProduct(products, owner, pid)
    IN  /\ LoopFree(sweep, fetch)
        /\ deleting.pc = "idle"
        /\ deleting' = IF row = NoRow THEN IdleDelete
                       ELSE [pc |-> "loaded", row |-> row,
                             history |-> HistoryOf(price_history, row.id)]
        /\ UNCHANGED <<products, price_history, clock, fetch, sweep, event,
                       configVars, reply, listing, textVars, accountVars>>

\* line 177: db.commit()
DeleteCommit ==
    LET out == DeleteCascade(Store(products, price_history),
                             deleting.row, deleting.history)
    IN  /\ deleting.pc = "loaded"
        /\ products' = out.products
        /\ price_history' = out.price_history
        /\ deleting' = IdleDelete
        /\ UNCHANGED <<clock, fetch, sweep, event, configVars, reply, listing, textVars, accountVars>>

----------------------------------------------------------------------------
(* refresh_all_products: one session for the whole sweep *)

\* todo: the ids of the loaded products not yet finished, the current one first
\* snap: the column values the session holds for the current product
\* call: the provider extract_product_data resolved for the current product
\* loaded: how many products the sweep loaded at its start
\* attempted: for how many of them fetch_page_content was called
\* logged: how many "Refreshed product" and "Failed to refresh product" lines
\* the sweep wrote
IdleSweep ==
    [origin |-> "none", pc |-> "idle", todo |-> <<>>, snap |-> NoRow,
     call |-> NoCall, loaded |-> 0, attempted |-> 0, logged |-> 0]

Running(sw) ==
    sw.pc # "idle"

\* ids of the rows db.query(Product).all() returns, in rowid order
RECURSIVE IdsAscending(_)
IdsAscending(ids) ==
    IF ids = {} THEN <<>>
    ELSE LET m == CHOOSE x \in ids : \A y \in ids : x <= y
         IN  <<m>> \o IdsAscending(ids \ {m})

\* lines 43-45: open the session and load every Product; the instances are
\* loaded (not expired) until the session's first commit or rollback
SweepBegin(origin, rows) ==
    LET todo == IdsAscending({r.id : r \in rows})
    IN  IF todo = <<>> THEN IdleSweep
        ELSE [origin |-> origin, pc |-> "pending", todo |-> todo,
              snap |-> RowById(rows, todo[1]), call |-> NoCall,
              loaded |-> Len(todo), attempted |-> 0, logged |-> 0]

\* a variant that starts the render of the same product once more
SweepRetry(sw) ==
    [sw EXCEPT !.pc = "rendering", !.call = NoCall, !.attempted = @ + 1]

\* the item's line is logged (line 50 or 52) and the commit or the rollback
\* expires every instance; the loop goes to the next product, or the sweep
\* completes (line 54)
SweepAdvance(sw) ==
    IF Len(sw.todo) = 1 THEN IdleSweep
    ELSE [sw EXCEPT !.todo = Tail(@), !.snap = NoRow, !.pc = "pending",
                    !.call = NoCall, !.logged = @ + 1]

\* a variant that leaves last_checked alone
SweepAssignKeepChecked(snap, e, now) ==
    [snap EXCEPT !.title = e.title,
                 !.domain = IF e.website # "" THEN e.website ELSE snap.domain,
                 !.stock_status = e.stock_status]

\* lines 26-29: the assignments to the loaded instance
SweepAssign(snap, e, now) ==
    [snap EXCEPT !.title = e.title,
                 !.domain = IF e.website # "" THEN e.website ELSE snap.domain,
                 !.stock_status = e.stock_status,
                 !.last_checked = now]

\* the flush's UPDATE sets only the columns whose value differs from the one
\* the session loaded
SweepUpdate(cur, snap, new) ==
    [cur EXCEPT !.title = IF new.title # snap.title THEN new.title ELSE @,
                !.domain = IF new.domain # snap.domain THEN new.domain ELSE @,
                !.stock_status =
                    IF new.stock_status # snap.stock_status THEN new.stock_status ELSE @,
                !.last_checked =
                    IF new.last_checked # snap.last_checked THEN new.last_checked ELSE @]

\* the store faults a sweep item can meet: a statement of the flush, the COMMIT
SweepFaults == {"none", "flush", "commit"}

\* a variant in which a failed COMMIT keeps the flushed rows
SweepCommitKeep(committed, final, fault) ==
    IF fault = "flush" THEN committed ELSE final

\* lines 49-53: db.commit(), or db.rollback() in the handler
SweepCommit(committed, final, fault) ==
    IF fault = "none" THEN final ELSE committed

\* lines 24-38 and 49-53 for the instance loaded as snap.
\* "raised": the flush failed (an injected fault, or the UPDATE matched no row:
\* StaleDataError); the failed flush rolled the transaction back and expired
\* the instance, so the handler's product.url raises out of the except block.
SweepPersist(store, snap, e, now, fault) ==
    LET new   == SweepAssign(snap, e, now)
        cur   == RowById(store.products, snap.id)
        dirty == new # snap
        rows  == IF dirty /\ cur # NoRow
                 THEN (store.products \ {cur}) \cup {SweepUpdate(cur, snap, new)}
                 ELSE store.products
        hist  == store.price_history \cup
                    {[id |-> NextId(store.price_history), product_id |-> snap.id,
                      price |-> e.price, currency |-> e.currency, timestamp |-> now]}
        met   == IF dirty /\ cur = NoRow THEN "flush" ELSE fault
    IN  [store   |-> SweepCommit(store, Store(rows, hist), met),
         outcome |-> CASE met = "none"   -> "refreshed"
                       [] met = "commit" -> "failed"
                       [] OTHER          -> "raised"]

FreeSweepSlots(S) ==
    {s \in S : ~Running(sweep[s])}

LowestFree(S) ==
    CHOOSE s \in FreeSweepSlots(S) : \A t \in FreeSweepSlots(S) : s <= t

TimerSweeps(sw) ==
    {s \in SweepSlots : Running(sw[s]) /\ sw[s].origin = "timer"}

\* a variant without the instance limit
TimerMayStartAlways(sw) ==
    TRUE

\* max_instances=1: the executor refuses a job that already has that many
\* running instances
TimerMayStart(sw) ==
    Cardinality(TimerSweeps(sw)) < MaxInstances

\* the interval trigger fires: the job is submitted, or this run is skipped
\* (the scheduler logs "skipped: maximum number of running instances reached")
TimerFire(S) ==
    /\ IF TimerMayStart(sweep)
       THEN /\ FreeSweepSlots(S) # {}
            /\ sweep' = [sweep EXCEPT ![LowestFree(S)] = SweepBegin("timer", products)]
            /\ UNCHANGED event
       ELSE /\ event' = "skipped"
            /\ UNCHANGED sweep
    /\ UNCHANGED <<products, price_history, clock, fetch, deleting,
                 configVars, reply, listing, textVars, accountVars>>

\* line 152: asyncio.create_task(refresh_all_products())
TriggerStart(S) ==
    /\ FreeSweepSlots(S) # {}
    /\ sweep' = [sweep EXCEPT ![LowestFree(S)] = SweepBegin("manual", products)]
    /\ UNCHANGED <<products, price_history, clock, fetch, deleting,
                 configVars, reply, listing, textVars, accountVars>>

\* POST /products/refresh, seen from the store and the sweeps
TriggerRefresh(S) ==
    /\ TriggerStart(S)
    /\ UNCHANGED event

\* a variant that answers only when the sweep it runs has ended
TriggerRefreshAwaited(S) ==
    /\ TriggerStart(S)
    /\ event' = IF Running(sweep'[LowestFree(S)]) THEN event ELSE "200"

\* POST /products/refresh with its answer: the task is created and the
\* handler returns 202 without awaiting it (line 153)
TriggerRefreshAccepted(S) ==
    /\ TriggerStart(S)
    /\ event' = "202"

\* a variant in which closing the session commits what the item in progress
\* has touched
CancelCommits(s) ==
    /\ Running(sweep[s])
    /\ sweep' = [sweep EXCEPT ![s] = IdleSweep]
    /\ event' = "cancelled"
    /\ products' = {[r EXCEPT !.stock_status =
                                IF r.id = Head(sweep[s].todo) THEN "Unknown" ELSE @] :
                       r \in products}
    /\ UNCHANGED <<price_history, clock, fetch, deleting,
                 configVars, reply, listing, textVars, accountVars>>

\* the process is shut down, or the sweep's task is cancelled: nothing of
\* the item in progress was flushed (the assignments of lines 26-38 come after
\* the last await), and closing the session rolls back
Cancel(s) ==
    /\ Running(sweep[s])
    /\ sweep' = [sweep EXCEPT ![s] = IdleSweep]
    /\ event' = "cancelled"
    /\ UNCHANGED <<products, price_history, clock, fetch, deleting,
                 configVars, reply, listing, textVars, accountVars>>

\* line 20: product.url; an expired instance is reloaded, and a row that is
\* gone raises ObjectDeletedError, in the try and again in the handler
SweepItemStart(s) ==
    /\ sweep[s].pc = "pending"
    /\ LET sw  == sweep[s]
           row == IF sw.snap # NoRow THEN sw.snap ELSE RowById(products, Head(sw.todo))
       IN  /\ sweep' = [sweep EXCEPT ![s] =
                           IF row = NoRow THEN IdleSweep
                           ELSE [sw EXCEPT !.pc = "rendering", !.snap = row,
                                           !.attempted = @ + 1]]
           /\ event' = IF row = NoRow THEN "raised" ELSE event
    /\ UNCHANGED <<products, price_history, clock, fetch, deleting,
                 configVars, reply, listing, textVars, accountVars>>

\* fetch_page_content returns or raises; after a render extract_product_data
\* resolves the provider and awaits its answer, or raises when there is none
SweepRenderReturn(s, ok) ==
    /\ sweep[s].pc = "rendering"
    /\ LET calls == ResolveProvider(provider_configs, env_key)
       IN  IF ok /\ calls # {}
           THEN /\ \E c \in calls :
                      sweep' = [sweep EXCEPT ![s].pc = "extracting", ![s].call = c]
                /\ UNCHANGED event
           ELSE /\ sweep' = [sweep EXCEPT ![s] = SweepAdvance(@)]
                /\ event' = "failed"
    /\ UNCHANGED <<products, price_history, clock, fetch, deleting,
                 configVars, reply, listing, textVars, accountVars>>

\* extract_product_data raises: the item is logged as failed
SweepReject(s) ==
    /\ sweep[s].pc = "extracting"
    /\ sweep' = [sweep EXCEPT ![s] = SweepAdvance(@)]
    /\ event' = "failed"
    /\ UNCHANGED <<products, price_history, clock, fetch, deleting,
                 configVars, listing, textVars, accountVars>>

\* the provider call fails (transport, status)
SweepExtractFail(s) ==
    /\ SweepReject(s)
    /\ UNCHANGED reply

\* extract_product_data returns e: lines 24-38 and 49-53 run without an await
SweepAnswer(s, e, fault) ==
    /\ sweep[s].pc = "extracting"
    /\ clock < MaxClock
    /\ LET now == clock + 1
           out == SweepPersist(Store(products, price_history),
                               sweep[s].snap, e, now, fault)
       IN  /\ clock' = IF out.outcome = "refreshed" THEN now ELSE clock
           /\ products' = out.store.products
           /\ price_history' = out.store.price_history
           /\ sweep' = [sweep EXCEPT ![s] =
                           IF out.outcome = "raised" THEN IdleSweep
                           ELSE SweepAdvance(@)]
           /\ event' = out.outcome
    /\ UNCHANGED <<fetch, deleting, configVars, listing, textVars, accountVars>>

\* the extraction returns e (the provider's answer already validated)
SweepExtractReturn(s, e, fault) ==
    /\ SweepAnswer(s, e, fault)
    /\ UNCHANGED reply

\* the provider answers r: extract_product_data parses and validates it, and
\* the sweep goes on with the result or logs the item as failed
SweepProviderReturn(s, r, fault) ==
    LET out == ExtractOutcome(sweep[s].call, r)
    IN  /\ sweep[s].pc = "extracting"
        /\ reply' = [fences |-> r.fences, json |-> r.json, fields |-> r.fields,
                     stock |-> r.stock, parses |-> out.parses]
        /\ IF out.ok THEN SweepAnswer(s, out.e, fault) ELSE SweepReject(s)

----------------------------------------------------------------------------
(* GET /products: the derived view *)

\* previous_price, previous_currency: None
NoPrevious ==
    [some |-> FALSE, price |-> 0, currency |-> ""]

\* lowest_price, lowest_currency, lowest_timestamp: None
NoLowest ==
    [some |-> FALSE, price |-> 0, currency |-> "", timestamp |-> 0]

\* order_by(PriceHistory.timestamp.asc()).all()
RECURSIVE ByTimestamp(_)
ByTimestamp(hist) ==
    IF hist = {} THEN <<>>
    ELSE LET h == CHOOSE x \in hist : \A o \in hist : x.timestamp <= o.timestamp
         IN  <<h>> \o ByTimestamp(hist \ {h})

\* a variant that keeps the last of the entries with the least price
RECURSIVE MinByPriceLast(_)
MinByPriceLast(entries) ==
    IF Len(entries) = 1 THEN entries[1]
    ELSE LET rest == MinByPriceLast(Tail(entries))
         IN  IF entries[1].price < rest.price THEN entries[1] ELSE rest

\* min(history_entries, key=lambda entry: entry.price): the first of the
\* entries with the least price
RECURSIVE MinByPrice(_)
MinByPrice(entries) ==
    IF Len(entries) = 1 THEN entries[1]
    ELSE LET rest == MinByPrice(Tail(entries))
         IN  IF entries[1].price <= rest.price THEN entries[1] ELSE rest

\* a variant that fills previous and lowest from a single entry
SerializeAlwaysFilled(hist, product) ==
    LET entries == ByTimestamp(HistoryOf(hist, product.id))
        n       == Len(entries)
    IN  [id |-> product.id, url |-> product.url, title |-> product.title,
         price |-> entries[n].price, currency |-> entries[n].currency,
         stock_status |-> IF product.stock_status = "" THEN "Unknown"
                          ELSE product.stock_status,
         website |-> product.domain,
         last_checked |-> IF product.last_checked # 0 THEN product.last_checked
                          ELSE entries[n].timestamp,
         previous |-> [some |-> TRUE, price |-> entries[1].price,
                       currency |-> entries[1].currency],
         lowest |-> [some |-> TRUE, price |-> MinByPrice(entries).price,
                     currency |-> MinByPrice(entries).currency,
                     timestamp |-> MinByPrice(entries).timestamp]]

\* _serialize_tracked_product, lines 39-60, for a product with history
SerializeTrackedProduct(hist, product) ==
    LET entries == ByTimestamp(HistoryOf(hist, product.id))
        n       == Len(entries)
    IN  [id |-> product.id, url |-> product.url, title |-> product.title,
         price |-> entries[n].price, currency |-> entries[n].currency,
         stock_status |-> IF product.stock_status = "" THEN "Unknown"
                          ELSE product.stock_status,
         website |-> product.domain,
         last_checked |-> IF product.last_checked # 0 THEN product.last_checked
                          ELSE entries[n].timestamp,
         previous |-> IF n >= 2
                      THEN [some |-> TRUE, price |-> entries[n - 1].price,
                            currency |-> entries[n - 1].currency]
                      ELSE NoPrevious,
         lowest |-> IF n >= 2
                    THEN [some |-> TRUE, price |-> MinByPrice(entries).price,
                          currency |-> MinByPrice(entries).currency,
                          timestamp |-> MinByPrice(entries).timestamp]
                    ELSE NoLowest]

\* a variant without the owner filter
ListViewsAll(rows, hist, owner) ==
    {SerializeTrackedProduct(hist, p) :
        p \in {r \in rows : HistoryOf(hist, r.id) # {}}}

\* list_products, lines 135-142: the caller's products, without those whose
\* serialization raises RuntimeError (lines 36-37: no price history)
ListViews(rows, hist, owner) ==
    {SerializeTrackedProduct(hist, p) :
        p \in {r \in rows : r.user_id = owner /\ HistoryOf(hist, r.id) # {}}}

NoListing ==
    [owner |-> 0, views |-> {}]

\* GET /products by owner
ListProducts(owner) ==
    /\ LoopFree(sweep, fetch)
    /\ listing' = [owner |-> owner, views |-> ListViews(products, price_history, owner)]
    /\ UNCHANGED <<products, price_history, clock, fetch, sweep, event, deleting,
                   configVars, reply, textVars, accountVars>>

\* the stores the view is computed from: products of two users, one of them
\* never with an observation, and every choice of observations of products 1
\* and 2 at the timestamps 1 .. MaxClock with the prices 80 and 100
ViewProducts ==
    { [id |-> 1, user_id |-> 1, url |-> "http://n1/p", title |-> "A",
       domain |-> "shop", stock_status |-> "In Stock", last_checked |-> MaxClock],
      [id |-> 2, user_id |-> 2, url |-> "http://n1/p", title |-> "B",
       domain |-> "n1", stock_status |-> "", last_checked |-> 0],
      [id |-> 3, user_id |-> 1, url |-> "http://n2/p", title |-> "A",
       domain |-> "shop", stock_status |-> "Unknown", last_checked |-> 1] }

ViewHistories ==
    LET keys == {1, 2} \X (1 .. MaxClock)
    IN  { { [id |-> (k[1] - 1) * MaxClock + k[2], product_id |-> k[1],
             price |-> f[k], currency |-> IF f[k] = 80 THEN "EUR" ELSE "USD",
             timestamp |-> k[2]] : k \in {x \in keys : f[x] # 0} } :
          f \in [keys -> {0, 80, 100}] }

----------------------------------------------------------------------------
(* _clean_html and the text handed to the provider *)

\* A page is a tree of nodes. A text node has the tag "#text", a label s that
\* tells where its text comes from, and the number n of characters it has
\* after strip() (0 for whitespace); an element has a tag and its children.
\* A text is a sequence of runs of characters: [s, n] is n characters of s.
TextNode(s, n) ==
    [tag |-> "#text", s |-> s, n |-> n, kids |-> <<>>]

Element(tag, kids) ==
    [tag |-> tag, s |-> "", n |-> 0, kids |-> kids]

NoPage ==
    Element("body", <<>>)

NoPrompt ==
    [to |-> "", text |-> <<>>]

\* SCRAPER_MAX_CHARS, by default
MAX_CHARS == 15000

\* html_content[:8000]
GroqPromptChars == 8000

\* a variant that keeps the nav elements
DroppedTagsButNav ==
    {"script", "style", "noscript", "footer"}

\* soup(["script", "style", "noscript", "footer", "nav"])
DroppedTags ==
    {"script", "style", "noscript", "footer", "nav"}

\* tag.decompose() for every element found: the element goes with its subtree
RECURSIVE Decompose(_), DecomposeAll(_)
DecomposeAll(kids) ==
    IF kids = <<>> THEN <<>>
    ELSE (IF Head(kids).tag \in DroppedTags THEN <<>>
          ELSE <<Decompose(Head(kids))>>) \o DecomposeAll(Tail(kids))

Decompose(node) ==
    [node EXCEPT !.kids = DecomposeAll(node.kids)]

\* soup.get_text: the strings of the tree in document order
RECURSIVE GetText(_), GetTextAll(_)
GetTextAll(kids) ==
    IF kids = <<>> THEN <<>>
    ELSE GetText(Head(kids)) \o GetTextAll(Tail(kids))

GetText(node) ==
    IF node.tag = "#text" THEN <<[s |-> node.s, n |-> node.n]>>
    ELSE GetTextAll(node.kids)

\* lines 41-42: the stripped lines that are not empty
NonEmpty(run) ==
    run.n > 0

\* "\n".join(lines)
RECURSIVE JoinLines(_)
JoinLines(lines) ==
    IF Len(lines) <= 1 THEN lines
    ELSE <<Head(lines), [s |-> "\n", n |-> 1]>> \o JoinLines(Tail(lines))

\* len(text)
RECURSIVE Chars(_)
Chars(text) ==
    IF text = <<>> THEN 0 ELSE Head(text).n + Chars(Tail(text))

\* text[:k]
RECURSIVE Slice(_, _)
Slice(text, k) ==
    IF text = <<>> \/ k = 0 THEN <<>>
    ELSE IF Head(text).n <= k
         THEN <<Head(text)>> \o Slice(Tail(text), k - Head(text).n)
         ELSE <<[Head(text) EXCEPT !.n = k]>>

\* _clean_html
CleanHtml(page) ==
    LET text == JoinLines(SelectSeq(GetText(Decompose(page)), NonEmpty))
    IN  IF Chars(text) > MAX_CHARS THEN Slice(text, MAX_CHARS) ELSE text

\* what the provider's prompt holds of the cleaned text: the Groq adapter
\* puts html_content[:8000] into its prompt (groq.py:53), the fallback chain
\* the whole text (agent.py:97)
PromptText(call, text) ==
    IF call.provider_name = "groq" THEN Slice(text, GroqPromptChars) ELSE text

\* extract_product_data, lines 51-120: the page is cleaned, the provider
\* resolved and the text handed to it
HandToProvider ==
    /\ html_content = NoPrompt
    /\ \E c \in ResolveProvider(provider_configs, env_key) :
          /\ cleaned' = CleanHtml(page_content)
          /\ html_content' = [to |-> c.provider_name,
                              text |-> PromptText(c, CleanHtml(page_content))]
    /\ UNCHANGED <<products, price_history, clock, fetch, sweep, event, deleting,
                   configVars, reply, listing, page_content, accountVars>>

\* the same page is handed over once more
HandAgain ==
    /\ html_content # NoPrompt
    /\ html_content' = NoPrompt
    /\ UNCHANGED <<products, price_history, clock, fetch, sweep, event, deleting,
                   configVars, reply, listing, page_content, cleaned, accountVars>>

\* the nodes pages are made of: paragraphs short and long, a script, a style,
\* a noscript, a nav with a paragraph in it, a div with a text, a paragraph
\* and a footer in it, and whitespace
PageNodes ==
    { Element("p", <<TextNode("title", 5)>>),
      Element("p", <<TextNode("para", 9000)>>),
      Element("script", <<TextNode("js", 9000)>>),
      Element("style", <<TextNode("css", 5)>>),
      Element("noscript", <<Element("p", <<TextNode("fallback", 5)>>)>>),
      Element("nav", <<Element("p", <<TextNode("menu", 5)>>)>>),
      Element("div", <<TextNode("price", 5),
                       Element("p", <<TextNode("para", 9000)>>),
                       Element("footer", <<TextNode("legal", 5)>>)>>),
      TextNode("space", 0) }

\* how many nodes the body of a page holds at most
MaxNodes == 3

\* the pages with up to MaxNodes nodes in the body
Pages ==
    UNION { { Element("body", [i \in 1 .. k |-> f[i]]) :
                f \in [1 .. k -> PageNodes] } : k \in 0 .. MaxNodes }

----------------------------------------------------------------------------
(* /auth: signup in two steps, the deprecated register, account deletion.   *)
(* The handlers are plain defs: each runs in a worker thread, and its Redis *)
(* calls and database statements interleave with those of the others.       *)

\* db.query(User).filter(User.email == email).first()
FindUser(rows, email) ==
    \E u \in rows : u.email = email

\* a variant without the unique index
EmailTakenNever(rows, email) ==
    FALSE

\* users.email is unique=True: the INSERT of a second row with the email fails
EmailTaken(rows, email) ==
    \E u \in rows : u.email = email

\* the requests that share the state with the step of slot a leave it alone
AuthStep(a, next) ==
    auth' = [auth EXCEPT ![a] = next]

\* signup_initiate, lines 65-70: 400 for a registered email
SignupStart(a, email) ==
    /\ auth[a] = IdleAuth
    /\ IF FindUser(users, email)
       THEN event' = "400" /\ UNCHANGED auth
       ELSE /\ \E otp \in Otps :
                  AuthStep(a, [IdleAuth EXCEPT !.op = "signup", !.pc = "checked",
                                               !.email = email, !.otp = otp])
            /\ UNCHANGED event
    /\ UNCHANGED <<products, price_history, clock, fetch, sweep, deleting,
                   configVars, reply, listing, textVars,
                   users, pending, deletion, saved>>

\* lines 79-90: the generated OTP replaces whatever was pending for the email
SignupStore(a) ==
    /\ auth[a].op = "signup" /\ auth[a].pc = "checked"
    /\ pending' = [pending EXCEPT ![auth[a].email] = auth[a].otp]
    /\ AuthStep(a, [auth[a] EXCEPT !.pc = "stored"])
    /\ UNCHANGED <<products, price_history, clock, fetch, sweep, event, deleting,
                   configVars, reply, listing, textVars,
                   users, deletion, saved>>

\* lines 93-117: the email is sent (200), or it is not and the pending
\* registration of the email is deleted (500)
SignupSent(a, ok) ==
    /\ auth[a].op = "signup" /\ auth[a].pc = "stored"
    /\ pending' = IF ok THEN pending ELSE [pending EXCEPT ![auth[a].email] = NoOtp]
    /\ event' = IF ok THEN "200" ELSE "500"
    /\ AuthStep(a, IdleAuth)
    /\ UNCHANGED <<products, price_history, clock, fetch, sweep, deleting,
                   configVars, reply, listing, textVars,
                   users, deletion, saved>>

\* the TTL of setex runs out
ExpirePending(email) ==
    /\ pending[email] # NoOtp
    /\ pending' = [pending EXCEPT ![email] = NoOtp]
    /\ UNCHANGED <<products, price_history, clock, fetch, sweep, event, deleting,
                   configVars, reply, listing, textVars,
                   users, deletion, auth, saved>>

\* verify_otp_endpoint, lines 139-145: 400 without a pending registration
VerifyStart(a, email, otp) ==
    /\ auth[a] = IdleAuth
    /\ IF pending[email] = NoOtp
       THEN event' = "400" /\ UNCHANGED auth
       ELSE /\ AuthStep(a, [IdleAuth EXCEPT !.op = "verify", !.pc = "read",
                                            !.email = email, !.otp = otp])
            /\ UNCHANGED event
    /\ UNCHANGED <<products, price_history, clock, fetch, sweep, deleting,
                   configVars, reply, listing, textVars,
                   users, pending, deletion, saved>>

\* lines 148-152: verify_otp reads the pending registration again and
\* compares its OTP with the one supplied
VerifyCheck(a) ==
    /\ auth[a].op = "verify" /\ auth[a].pc = "read"
    /\ IF pending[auth[a].email] = auth[a].otp
       THEN AuthStep(a, [auth[a] EXCEPT !.pc = "verified"]) /\ UNCHANGED event
       ELSE AuthStep(a, IdleAuth) /\ event' = "400"
    /\ UNCHANGED <<products, price_history, clock, fetch, sweep, deleting,
                   configVars, reply, listing, textVars,
                   users, pending, deletion, saved>>

\* lines 155-172: a registered email deletes the pending registration (400);
\* otherwise User(..., is_verified=True) is constructed, and the declarative
\* constructor raises TypeError, for the model User has no is_verified
\* (models.py 12-26): the request ends with 500 before db.add
VerifyCreate(a) ==
    /\ auth[a].op = "verify" /\ auth[a].pc = "verified"
    /\ IF FindUser(users, auth[a].email)
       THEN /\ pending' = [pending EXCEPT ![auth[a].email] = NoOtp]
            /\ event' = "400"
       ELSE /\ UNCHANGED pending
            /\ event' = "500"
    /\ AuthStep(a, IdleAuth)
    /\ UNCHANGED <<products, price_history, clock, fetch, sweep, deleting,
                   configVars, reply, listing, textVars,
                   users, deletion, saved>>

\* register, lines 215-231: 400 for a registered email
RegisterStart(a, email) ==
    /\ auth[a] = IdleAuth
    /\ IF FindUser(users, email)
       THEN event' = "400" /\ UNCHANGED auth
       ELSE /\ AuthStep(a, [IdleAuth EXCEPT !.op = "register", !.pc = "adding",
                                            !.email = email])
            /\ UNCHANGED event
    /\ UNCHANGED <<products, price_history, clock, fetch, sweep, deleting,
                   configVars, reply, listing, textVars,
                   users, pending, deletion, saved>>

\* lines 233-244: the INSERT and the commit; IntegrityError is not handled
RegisterCommit(a) ==
    /\ auth[a].op = "register" /\ auth[a].pc = "adding"
    /\ IF EmailTaken(users, auth[a].email)
       THEN event' = "500" /\ UNCHANGED users
       ELSE /\ users' = users \cup {[id |-> NextId(users), email |-> auth[a].email]}
            /\ event' = "201"
    /\ AuthStep(a, IdleAuth)
    /\ UNCHANGED <<products, price_history, clock, fetch, sweep, deleting,
                   configVars, reply, listing, textVars,
                   pending, deletion, saved>>

\* Depends(get_current_active_user): the caller's row of users
CurrentUser(rows, u) ==
    \E r \in rows : r.id = u

\* delete_account_initiate: an OTP is stored for the caller (lines 362-365)
\* and mailed (200); when the mail fails it is deleted again (500)
DeleteInitiate(u, ok) ==
    /\ CurrentUser(users, u)
    /\ \E otp \in Otps :
          deletion' = [deletion EXCEPT ![u] = IF ok THEN otp ELSE NoOtp]
    /\ event' = IF ok THEN "200" ELSE "500"
    /\ UNCHANGED <<products, price_history, clock, fetch, sweep, deleting,
                   configVars, reply, listing, textVars,
                   users, pending, auth, saved>>

\* the TTL of the deletion OTP runs out
ExpireDeletion(u) ==
    /\ deletion[u] # NoOtp
    /\ deletion' = [deletion EXCEPT ![u] = NoOtp]
    /\ UNCHANGED <<products, price_history, clock, fetch, sweep, event, deleting,
                   configVars, reply, listing, textVars,
                   users, pending, auth, saved>>

\* delete_account_confirm, lines 424-428: 400 unless the OTP supplied is the
\* one stored for the caller
ConfirmStart(a, u, otp) ==
    /\ auth[a] = IdleAuth
    /\ CurrentUser(users, u)
    /\ IF deletion[u] = otp
       THEN /\ AuthStep(a, [IdleAuth EXCEPT !.op = "confirm", !.pc = "verified",
                                            !.otp = otp, !.user = u])
            /\ UNCHANGED event
       ELSE event' = "400" /\ UNCHANGED auth
    /\ UNCHANGED <<products, price_history, clock, fetch, sweep, deleting,
                   configVars, reply, listing, textVars,
                   users, pending, deletion, saved>>

\* lines 431-435: the OTP is deleted from Redis; db.delete(current_user)
\* loads the caller's products, their price_history and the caller's
\* provider_configs for the cascade
ConfirmLoad(a) ==
    /\ auth[a].op = "confirm" /\ auth[a].pc = "verified"
    /\ deletion' = [deletion EXCEPT ![auth[a].user] = NoOtp]
    /\ LET rows == {r \in products : r.user_id = auth[a].user}
       IN  AuthStep(a, [op |-> "confirm", pc |-> "loaded", email |-> "",
                        otp |-> auth[a].otp, user |-> auth[a].user,
                        rows |-> rows,
                        history |-> {h \in price_history :
                                       \E r \in rows : r.id = h.product_id},
                        configs |-> {c \in provider_configs :
                                       c.user_id = auth[a].user}])
    /\ UNCHANGED <<products, price_history, clock, fetch, sweep, event, deleting,
                   configVars, reply, listing, textVars,
                   users, pending, saved>>

\* the flush of the commit: one DELETE by primary key for every loaded row
AccountCascade(store, loaded) ==
    Store({r \in store.products : r.id \notin {l.id : l \in loaded.rows}},
          {h \in store.price_history : h.id \notin {l.id : l \in loaded.history}})

\* line 436: db.commit(), answered 200
ConfirmCommit(a) ==
    /\ auth[a].op = "confirm" /\ auth[a].pc = "loaded"
    /\ LET out == AccountCascade(Store(products, price_history), auth[a])
       IN  /\ products' = out.products
           /\ price_history' = out.price_history
    /\ provider_configs' = provider_configs \ auth[a].configs
    /\ users' = {r \in users : r.id # auth[a].user}
    /\ event' = "200"
    /\ AuthStep(a, IdleAuth)
    /\ UNCHANGED <<clock, fetch, sweep, deleting, env_key, reply, listing,
                   textVars, pending, deletion, saved>>

----------------------------------------------------------------------------
(* The specification *)

Init ==
    /\ products = {}
    /\ price_history = {}
    /\ clock = 0
    /\ fetch = [f \in FetchSlots |-> IdleFetch]
    /\ sweep = [s \in SweepSlots |-> IdleSweep]
    /\ event = "none"
    /\ deleting = IdleDelete
    /\ provider_configs = {}
    /\ env_key = TRUE
    /\ reply = NoReply
    /\ listing = NoListing
    /\ page_content = NoPage
    /\ cleaned = <<>>
    /\ html_content = NoPrompt
    /\ users = Accounts
    /\ pending = [m \in Emails |-> NoOtp]
    /\ deletion = [u \in Users |-> NoOtp]
    /\ auth = [a \in AuthSlots |-> IdleAuth]
    /\ saved = NoSave

\* the requests of the slots F, asking for the pairs R
FetchActions(F, R) ==
    \/ \E f \in F, r \in R : FetchStart(f, r[1], r[2])
    \/ \E f \in F, ok \in BOOLEAN : FetchRenderReturn(f, ok)
    \/ \E f \in F : FetchExtractFail(f)
    \/ \E f \in F, e \in Extractions, fault \in FetchFaults :
          FetchExtractReturn(f, e, fault)

DeleteActions ==
    \/ \E u \in Users, pid \in 1 .. MaxClock : DeleteProduct(u, pid)
    \/ DeleteCommit

\* the sweeps of the slots S
SweepActions(S) ==
    \/ TimerFire(S)
    \/ TriggerRefresh(S)
    \/ \E s \in S : SweepItemStart(s)
    \/ \E s \in S, ok \in BOOLEAN : SweepRenderReturn(s, ok)
    \/ \E s \in S : SweepExtractFail(s)
    \/ \E s \in S, e \in Extractions, fault \in SweepFaults :
          SweepExtractReturn(s, e, fault)

\* the sweep of slot s takes its next step: its render or its extraction
\* returns or fails, or the loop turns to the next product
SweepStep(s) ==
    \/ SweepItemStart(s)
    \/ \E ok \in BOOLEAN : SweepRenderReturn(s, ok)
    \/ SweepExtractFail(s)
    \/ \E e \in Extractions, fault \in SweepFaults : SweepExtractReturn(s, e, fault)

\* one request and one sweep at a time, over the products of two users
Next ==
    \/ FetchActions({1}, RequestsSameUrl)
    \/ DeleteActions
    \/ SweepActions({1})

Spec == Init /\ [][Next]_vars

\* Spec, with every render call and every extraction call of a sweep
\* returning or failing in the end
SpecFair == Spec /\ \A s \in SweepSlots : WF_vars(SweepStep(s))

\* two requests at a time and no sweep
NextFetch ==
    \/ FetchActions(FetchSlots, Requests)
    \/ DeleteActions

SpecFetch == Init /\ [][NextFetch]_vars

\* two sweeps at a time over one product
NextSweeps ==
    \/ FetchActions({1}, RequestsOne)
    \/ DeleteActions
    \/ SweepActions(SweepSlots)

SpecSweeps == Init /\ [][NextSweeps]_vars

\* the service as its clients see it: one request, one delete and one manually
\* triggered sweep at a time, the extractor returning prices of either sign,
\* the trigger answered, the sweep's task cancelled at any point
NextService ==
    \/ \E r \in RequestsSameUrl : FetchStart(1, r[1], r[2])
    \/ \E ok \in BOOLEAN : FetchRenderReturn(1, ok)
    \/ FetchExtractFail(1)
    \/ \E e \in SignedExtractions : FetchExtractReturn(1, e, "none")
    \/ TriggerRefreshAccepted({1})
    \/ SweepItemStart(1)
    \/ \E ok \in BOOLEAN : SweepRenderReturn(1, ok)
    \/ SweepExtractFail(1)
    \/ \E e \in SignedExtractions, fault \in SweepFaults :
          SweepExtractReturn(1, e, fault)
    \/ Cancel(1)
    \/ DeleteActions

SpecService == Init /\ [][NextService]_vars

\* a Product of user 1 tracked at the instant 1
TrackedBefore ==
    Store({[id |-> 1, user_id |-> 1, url |-> "http://n1/p", title |-> "A",
            domain |-> "n1", stock_status |-> "In Stock", last_checked |-> 1]},
          {[id |-> 1, product_id |-> 1, price |-> 100, currency |-> "USD",
            timestamp |-> 1]})

\* any page, rendered for a user with or without a Groq configuration
InitNormalizer ==
    /\ products = {}
    /\ price_history = {}
    /\ clock = 0
    /\ fetch = [f \in FetchSlots |-> IdleFetch]
    /\ sweep = [s \in SweepSlots |-> IdleSweep]
    /\ event = "none"
    /\ deleting = IdleDelete
    /\ provider_configs \in {{}, SaveConfig({}, 1, "groq", "k1", "m1")}
    /\ env_key = TRUE
    /\ reply = NoReply
    /\ listing = NoListing
    /\ page_content \in Pages
    /\ cleaned = <<>>
    /\ html_content = NoPrompt
    /\ users = Accounts
    /\ pending = [m \in Emails |-> NoOtp]
    /\ deletion = [u \in Users |-> NoOtp]
    /\ auth = [a \in AuthSlots |-> IdleAuth]
    /\ saved = NoSave

NextNormalizer ==
    \/ HandToProvider
    \/ HandAgain

SpecNormalizer == InitNormalizer /\ [][NextNormalizer]_vars

\* a sweep over the Product tracked before has called the renderer, and the
\* render is in flight
InitInteractive ==
    /\ products = TrackedBefore.products
    /\ price_history = TrackedBefore.price_history
    /\ clock = 1
    /\ fetch = [f \in FetchSlots |-> IdleFetch]
    /\ sweep = [s \in SweepSlots |->
                  IF s = 1
                  THEN [SweepBegin("timer", TrackedBefore.products)
                           EXCEPT !.pc = "rendering", !.attempted = 1]
                  ELSE IdleSweep]
    /\ event = "none"
    /\ deleting = IdleDelete
    /\ provider_configs = {}
    /\ env_key = TRUE
    /\ reply = NoReply
    /\ listing = NoListing
    /\ page_content = NoPage
    /\ cleaned = <<>>
    /\ html_content = NoPrompt
    /\ users = Accounts
    /\ pending = [m \in Emails |-> NoOtp]
    /\ deletion = [u \in Users |-> NoOtp]
    /\ auth = [a \in AuthSlots |-> IdleAuth]
    /\ saved = NoSave

\* what the owner does meanwhile: the on-demand fetch of another URL, the
\* listing, a delete; and the sweep's render and extraction return
NextInteractive ==
    \/ FetchStart(1, 1, "http://n2/p")
    \/ \E ok \in BOOLEAN : FetchRenderReturn(1, ok)
    \/ FetchExtractFail(1)
    \/ \E e \in Extractions : FetchExtractReturn(1, e, "none")
    \/ ListProducts(1)
    \/ DeleteActions
    \/ \E ok \in BOOLEAN : SweepRenderReturn(1, ok)
    \/ SweepExtractFail(1)
    \/ \E e \in Extractions, fault \in SweepFaults : SweepExtractReturn(1, e, fault)

SpecInteractive == InitInteractive /\ [][NextInteractive]_vars

\* the server starts with or without GOOGLE_API_KEY in its environment, on
\* an empty store or on one that holds a Product tracked before
InitProviders ==
    /\ \E st \in {Store({}, {}), TrackedBefore} :
          /\ products = st.products
          /\ price_history = st.price_history
          /\ clock = Cardinality(st.price_history)
    /\ fetch = [f \in FetchSlots |-> IdleFetch]
    /\ sweep = [s \in SweepSlots |-> IdleSweep]
    /\ event = "none"
    /\ deleting = IdleDelete
    /\ provider_configs = {}
    /\ env_key \in BOOLEAN
    /\ reply = NoReply
    /\ listing = NoListing
    /\ page_content = NoPage
    /\ cleaned = <<>>
    /\ html_content = NoPrompt
    /\ users = Accounts
    /\ pending = [m \in Emails |-> NoOtp]
    /\ deletion = [u \in Users |-> NoOtp]
    /\ auth = [a \in AuthSlots |-> IdleAuth]
    /\ saved = NoSave

\* two users who save provider configurations, one request of user 1 and one
\* manual sweep at a time, the provider answering with any of Responses
NextProviders ==
    \/ \E u \in Users, name \in ProviderNames, key \in ApiKeys, model \in ModelNames :
          SaveProviderConfig(u, name, key, model)
    \/ \E r \in RequestsOne : FetchStart(1, r[1], r[2])
    \/ \E ok \in BOOLEAN : FetchRenderReturn(1, ok)
    \/ FetchExtractFail(1)
    \/ \E r \in Responses : FetchProviderReturn(1, r, "none")
    \/ TriggerRefresh({1})
    \/ SweepItemStart(1)
    \/ \E ok \in BOOLEAN : SweepRenderReturn(1, ok)
    \/ SweepExtractFail(1)
    \/ \E r \in Responses : SweepProviderReturn(1, r, "none")

SpecProviders == InitProviders /\ [][NextProviders]_vars

\* SpecProviders with the listing requested at any time
NextStock ==
    \/ NextProviders
    \/ \E u \in Users : ListProducts(u)

SpecStock == InitProviders /\ [][NextStock]_vars

\* two owners who track the same URL, delete by any id and list
NextOwners ==
    \/ \E r \in RequestsSameUrl : FetchStart(1, r[1], r[2])
    \/ \E ok \in BOOLEAN : FetchRenderReturn(1, ok)
    \/ FetchExtractFail(1)
    \/ \E e \in Extractions : FetchExtractReturn(1, e, "none")
    \/ \E u \in Users, pid \in 1 .. MaxClock : DeleteProductAnswered(u, pid)
    \/ DeleteCommit
    \/ \E u \in Users : ListProducts(u)

SpecOwners == Init /\ [][NextOwners]_vars

\* two users who save provider configurations one after the other
NextConfigs ==
    \E u \in Users, name \in ProviderNames, key \in SavedKeys, model \in SavedModels :
        SaveProviderConfigAnswered(u, name, key, model)

SpecConfigs == Init /\ [][NextConfigs]_vars

\* no account yet
InitSignup ==
    /\ products = {}
    /\ price_history = {}
    /\ clock = 0
    /\ fetch = [f \in FetchSlots |-> IdleFetch]
    /\ sweep = [s \in SweepSlots |-> IdleSweep]
    /\ event = "none"
    /\ deleting = IdleDelete
    /\ provider_configs = {}
    /\ env_key = TRUE
    /\ reply = NoReply
    /\ listing = NoListing
    /\ page_content = NoPage
    /\ cleaned = <<>>
    /\ html_content = NoPrompt
    /\ users = {}
    /\ pending = [m \in Emails |-> NoOtp]
    /\ deletion = [u \in Users |-> NoOtp]
    /\ auth = [a \in AuthSlots |-> IdleAuth]
    /\ saved = NoSave

\* signups, verifications and registrations of two emails, two at a time
NextSignup ==
    \/ \E a \in AuthSlots, m \in Emails : SignupStart(a, m)
    \/ \E a \in AuthSlots : SignupStore(a)
    \/ \E a \in AuthSlots, ok \in BOOLEAN : SignupSent(a, ok)
    \/ \E m \in Emails : ExpirePending(m)
    \/ \E a \in AuthSlots, m \in Emails, otp \in Otps : VerifyStart(a, m, otp)
    \/ \E a \in AuthSlots : VerifyCheck(a)
    \/ \E a \in AuthSlots : VerifyCreate(a)
    \/ \E a \in AuthSlots, m \in Emails : RegisterStart(a, m)
    \/ \E a \in AuthSlots : RegisterCommit(a)

SpecSignup == InitSignup /\ [][NextSignup]_vars

\* two accounts; user 1 tracks a Product and has a provider configuration
InitAccount ==
    /\ products = TrackedBefore.products
    /\ price_history = TrackedBefore.price_history
    /\ clock = 1
    /\ fetch = [f \in FetchSlots |-> IdleFetch]
    /\ sweep = [s \in SweepSlots |-> IdleSweep]
    /\ event = "none"
    /\ deleting = IdleDelete
    /\ provider_configs = SaveConfig({}, 1, "groq", "k1", "m1")
    /\ env_key = TRUE
    /\ reply = NoReply
    /\ listing = NoListing
    /\ page_content = NoPage
    /\ cleaned = <<>>
    /\ html_content = NoPrompt
    /\ users = Accounts
    /\ pending = [m \in Emails |-> NoOtp]
    /\ deletion = [u \in Users |-> NoOtp]
    /\ auth = [a \in AuthSlots |-> IdleAuth]
    /\ saved = NoSave

\* account deletions of both users, one delete-confirm at a time, and user 1
\* submitting URLs meanwhile
NextAccount ==
    \/ \E u \in Users, ok \in BOOLEAN : DeleteInitiate(u, ok)
    \/ \E u \in Users : ExpireDeletion(u)
    \/ \E u \in Users, otp \in Otps : ConfirmStart(1, u, otp)
    \/ ConfirmLoad(1)
    \/ ConfirmCommit(1)
    \/ \E url \in Urls : CurrentUser(users, 1) /\ FetchStart(1, 1, url)
    \/ \E ok \in BOOLEAN : FetchRenderReturn(1, ok)
    \/ FetchExtractFail(1)
    \/ \E e \in Extractions : FetchExtractReturn(1, e, "none")

SpecAccount == InitAccount /\ [][NextAccount]_vars

\* the listing, over every store of ViewProducts and ViewHistories
InitView ==
    /\ products \in SUBSET ViewProducts
    /\ price_history \in ViewHistories
    /\ clock = MaxClock
    /\ fetch = [f \in FetchSlots |-> IdleFetch]
    /\ sweep = [s \in SweepSlots |-> IdleSweep]
    /\ event = "none"
    /\ deleting = IdleDelete
    /\ provider_configs = {}
    /\ env_key = TRUE
    /\ reply = NoReply
    /\ listing = NoListing
    /\ page_content = NoPage
    /\ cleaned = <<>>
    /\ html_content = NoPrompt
    /\ users = Accounts
    /\ pending = [m \in Emails |-> NoOtp]
    /\ deletion = [u \in Users |-> NoOtp]
    /\ auth = [a \in AuthSlots |-> IdleAuth]
    /\ saved = NoSave

NextView ==
    \E u \in Users : ListProducts(u)

SpecView == InitView /\ [][NextView]_vars

----------------------------------------------------------------------------
(* Steps and selections the properties speak of *)

\* the rows of a (user, url) pair
RowsOf(rows, owner, url) ==
    {r \in rows : r.user_id = owner /\ r.url = url}

\* the sweep of slot s finishes its current product in this step (or ends)
ItemEnds(s) ==
    /\ Running(sweep[s])
    /\ \/ ~Running(sweep'[s])
       \/ sweep'[s].todo # sweep[s].todo

\* the request of slot f is answered in this step
Answered(f) ==
    /\ fetch[f].pc # "idle"
    /\ fetch'[f].pc = "idle"

StoreUnchanged ==
    /\ products' = products
    /\ price_history' = price_history

\* exactly one observation of product pid is appended, with the values of e
\* and the timestamp ts, and no other observation changes
AppendsOne(pid, e, ts) ==
    \E h \in price_history' :
        /\ h \notin price_history
        /\ price_history' = price_history \cup {h}
        /\ h.product_id = pid
        /\ h.price = e.price
        /\ h.currency = e.currency
        /\ h.timestamp = ts

\* the row holds the values of e, checked at ts
Overwritten(row, e, ts) ==
    /\ row.title = e.title
    /\ row.stock_status = e.stock_status
    /\ row.last_checked = ts

----------------------------------------------------------------------------
(* The properties *)

\* C1: batch isolation. A sweep that is rendering, extracting or committing
\* a product and has further products loaded goes on to the next one whatever
\* the outcome of the current one, and a product it reports refreshed has its
\* fields updated and one observation appended.
C1_BatchIsolation ==
    [][\A s \in SweepSlots :
          /\ (sweep[s].pc \in {"rendering", "extracting"} /\ Len(sweep[s].todo) > 1)
                => /\ Running(sweep'[s])
                   /\ sweep'[s].todo \in {sweep[s].todo, Tail(sweep[s].todo)}
          /\ (ItemEnds(s) /\ event' = "refreshed")
                => /\ Cardinality(price_history') = Cardinality(price_history) + 1
                   /\ \E r \in products' :
                         r.id = sweep[s].snap.id /\ r.last_checked = clock']_vars

\* C2: a sweep item that fails (or whose failure ends the sweep) leaves the
\* committed products and observations exactly as they were.
C2_FailedItemLeavesStore ==
    [][\A s \in SweepSlots :
          (ItemEnds(s) /\ event' \in {"failed", "raised"}) => StoreUnchanged]_vars

\* C2 witness: a sweep item has failed while products are in the store
C2_Witness ==
    /\ event = "failed"
    /\ products # {}
    /\ \E s \in SweepSlots : sweep[s].pc = "pending" /\ sweep[s].snap = NoRow

\* C3: every successful refresh, of a sweep item or of an on-demand fetch,
\* appends exactly one observation of the product and leaves the product with
\* the extracted title and stock status and the new last-checked.
C3_RefreshOverwritesAndAppends ==
    [][/\ \A s \in SweepSlots :
             (ItemEnds(s) /\ event' = "refreshed")
                => \E e \in Extractions :
                      /\ AppendsOne(sweep[s].snap.id, e, clock')
                      /\ \E r \in products' :
                            r.id = sweep[s].snap.id /\ Overwritten(r, e, clock')
       /\ \A f \in FetchSlots :
             (Answered(f) /\ event' = "200")
                => \E e \in Extractions :
                      \E r \in RowsOf(products', fetch[f].owner, fetch[f].url) :
                         /\ AppendsOne(r.id, e, clock')
                         /\ Overwritten(r, e, clock')]_vars

\* C4: on-demand atomicity. A request answered 500 leaves the store as it
\* was; a request answered 200 commits the Product and its observation
\* together.
C4_FetchAtomic ==
    [][\A f \in FetchSlots :
          /\ (Answered(f) /\ event' = "500") => StoreUnchanged
          /\ (Answered(f) /\ event' = "200")
                => \E r \in RowsOf(products', fetch[f].owner, fetch[f].url) :
                      /\ r.last_checked = clock'
                      /\ \E h \in price_history' \ price_history :
                            h.product_id = r.id /\ h.timestamp = clock']_vars

\* C4 witness: a request was answered 500 while a Product is in the store
C4_Witness ==
    /\ event = "500"
    /\ products # {}

\* C5: a render failure is answered 400, an extraction failure 502, each from
\* its own stage, and neither writes anything. (An extraction that fails before
\* it awaits, because no provider resolves, is answered in the step in which
\* the render returned.)
C5_FetchFailuresTyped ==
    [][\A f \in FetchSlots :
          /\ (Answered(f) /\ fetch[f].pc = "rendering")
                => /\ StoreUnchanged
                   /\ event' \in {"400", "502"}
                   /\ ResolveProvider(provider_configs, env_key) # {} => event' = "400"
          /\ (Answered(f) /\ fetch[f].pc = "extracting" /\ event' \notin {"200", "500"})
                => (event' = "502" /\ StoreUnchanged)
          /\ (Answered(f) /\ event' = "400") => fetch[f].pc = "rendering"
          /\ (Answered(f) /\ event' = "502")
                => \/ fetch[f].pc = "extracting"
                   \/ ResolveProvider(provider_configs, env_key) = {}]_vars

\* C5 witness: an extraction failure was answered while a Product is stored
C5_Witness ==
    /\ event = "502"
    /\ products # {}

\* C6: idempotent upsert. A successful registration leaves exactly one Product
\* for its (user, url); when one existed already no Product is added and its
\* id is kept; either way the Product has one observation more than before.
C6_IdempotentUpsert ==
    [][\A f \in FetchSlots :
          (Answered(f) /\ event' = "200")
             => LET before == RowsOf(products, fetch[f].owner, fetch[f].url)
                    after  == RowsOf(products', fetch[f].owner, fetch[f].url)
                IN  /\ Cardinality(after) = 1
                    /\ before # {} =>
                          /\ {r.id : r \in after} = {r.id : r \in before}
                          /\ Cardinality(products') = Cardinality(products)
                    /\ before = {} =>
                          Cardinality(products') = Cardinality(products) + 1
                    /\ \A r \in after :
                          Cardinality(HistoryOf(price_history', r.id)) =
                             Cardinality({h \in price_history :
                                            \E b \in before : h.product_id = b.id}) + 1]_vars

\* C7: at most one Product per (user, url) in every store state.
C7_UniqueOwnerUrl ==
    \A p \in products : \A q \in products :
        (p.user_id = q.user_id /\ p.url = q.url) => p = q

\* C7 witness: a Product exists for a (user, url) while another request for
\* the same pair, started before the Product was committed, is still in flight
C7_Witness ==
    \E f \in FetchSlots :
        /\ fetch[f].pc = "extracting"
        /\ clock = 1
        /\ Cardinality(RowsOf(products, fetch[f].owner, fetch[f].url)) = 1
        /\ \A g \in FetchSlots \ {f} : fetch[g].pc = "idle"

\* C8: at most one timer-started sweep executes at any time, and a timer
\* sweep only starts in a step that begins with none executing (a firing
\* during a running sweep starts nothing, then or later).
C8_TimerCoalesced ==
    /\ [](Cardinality({s \in SweepSlots :
                         sweep[s].pc # "idle" /\ sweep[s].origin = "timer"}) <= 1)
    /\ [][\A s \in SweepSlots :
             (sweep[s].pc = "idle" /\ sweep'[s].pc # "idle" /\ sweep'[s].origin = "timer")
                => \A t \in SweepSlots :
                      ~(sweep[t].pc # "idle" /\ sweep[t].origin = "timer")]_vars

\* C8 witness: a firing was skipped while a timer sweep is executing
C8_Witness ==
    /\ event = "skipped"
    /\ \E s \in SweepSlots : sweep[s].pc = "rendering" /\ sweep[s].origin = "timer"

\* C9: per-item state machine. Each loaded product is attempted once, in
\* order: a sweep only moves pending -> rendering -> extracting on its
\* current product, leaves it for the next one from rendering or extracting,
\* ends only after its last product, and writes only from extracting.
C9_ItemStateMachine ==
    [][\A s \in SweepSlots :
          (Running(sweep[s]) /\ sweep'[s] # sweep[s])
             => /\ \/ /\ sweep'[s].todo = sweep[s].todo
                      /\ <<sweep[s].pc, sweep'[s].pc>> \in
                            {<<"pending", "rendering">>, <<"rendering", "extracting">>}
                   \/ /\ sweep[s].pc \in {"rendering", "extracting"}
                      /\ Len(sweep[s].todo) > 1
                      /\ sweep'[s].todo = Tail(sweep[s].todo)
                      /\ sweep'[s].pc = "pending"
                   \/ /\ sweep[s].pc \in {"rendering", "extracting"}
                      /\ Len(sweep[s].todo) = 1
                      /\ sweep'[s].pc = "idle"
                /\ ~StoreUnchanged => sweep[s].pc = "extracting"]_vars

\* C10: no partial writes. Every committed Product has an observation stamped
\* with its last-checked, and none of its observations is later.
C10_LastCheckedIsLatest ==
    \A p \in products :
        \E h \in HistoryOf(price_history, p.id) :
            /\ h.timestamp = p.last_checked
            /\ \A o \in HistoryOf(price_history, p.id) : o.timestamp <= h.timestamp

\* C10 witness: a sweep committed a Product that an on-demand fetch, still in
\* flight, is about to write as well
C10_Witness ==
    /\ event = "refreshed"
    /\ \E p \in products :
          /\ Cardinality(HistoryOf(price_history, p.id)) >= 2
          /\ \E f \in FetchSlots :
                /\ fetch[f].pc = "extracting"
                /\ fetch[f].owner = p.user_id
                /\ fetch[f].url = p.url

\* C11: a sweep never raises outward. Once it has loaded its products a sweep
\* stops running only by finishing its last product, and never by an exception
\* that leaves refresh_all_products, whatever fetches and deletes interleave.
C11_SweepNeverRaises ==
    [][\A s \in SweepSlots :
          (Running(sweep[s]) /\ ~Running(sweep'[s]))
             => (Len(sweep[s].todo) = 1 /\ event' # "raised")]_vars

\* the observation of a set with the latest timestamp
Latest(H) ==
    CHOOSE h \in H : \A o \in H : o.timestamp <= h.timestamp

\* C12: the view of a Product with at least two observations. Its current
\* price is that of the observation with the latest timestamp, its previous
\* price that of the latest among the others, and its lowest price the least
\* price of all, taken from the earliest observation that has that price.
C12_ViewOfTwoOrMore ==
    \A v \in listing.views :
        LET H == HistoryOf(price_history, v.id)
        IN  Cardinality(H) >= 2 =>
               /\ v.price = Latest(H).price
               /\ v.currency = Latest(H).currency
               /\ v.previous.some
               /\ v.previous.price = Latest(H \ {Latest(H)}).price
               /\ v.previous.currency = Latest(H \ {Latest(H)}).currency
               /\ v.lowest.some
               /\ \A o \in H : v.lowest.price <= o.price
               /\ \E m \in H :
                     /\ m.price = v.lowest.price
                     /\ m.timestamp = v.lowest.timestamp
                     /\ m.currency = v.lowest.currency
                     /\ \A o \in H : o.price = m.price => m.timestamp <= o.timestamp

\* C12 witness: a listed Product with three observations whose least price
\* occurs twice, first and last
C12_Witness ==
    \E v \in listing.views :
        LET H == HistoryOf(price_history, v.id)
        IN  /\ Cardinality(H) = 3
            /\ v.price = 80
            /\ v.previous.price = 100
            /\ v.lowest.price = 80
            /\ v.lowest.timestamp = 1

\* C13: the view of a Product with exactly one observation has no previous
\* and no lowest, and its current price is that observation's.
C13_ViewOfOne ==
    \A v \in listing.views :
        LET H == HistoryOf(price_history, v.id)
        IN  Cardinality(H) = 1 =>
               /\ v.previous = NoPrevious
               /\ v.lowest = NoLowest
               /\ \A h \in H : v.price = h.price /\ v.currency = h.currency

\* C13 witness: a listed Product with a single observation
C13_Witness ==
    \E v \in listing.views :
        /\ Cardinality(HistoryOf(price_history, v.id)) = 1
        /\ v.price = 100

\* C14: a listing holds one view for each Product of the caller that has an
\* observation and nothing else: no Product of another user, and no Product
\* without observations, which is left out without failing the listing.
C14_ListingMembers ==
    listing.owner # 0 =>
        /\ {v.id : v \in listing.views} =
              {p.id : p \in {r \in products :
                                r.user_id = listing.owner
                                /\ HistoryOf(price_history, r.id) # {}}}
        /\ Cardinality(listing.views) = Cardinality({v.id : v \in listing.views})

\* C14 witness: a listing of a user who has a Product with observations and
\* one without, while another user's Product has observations too
C14_Witness ==
    /\ listing.owner = 1
    /\ Cardinality(listing.views) = 1
    /\ \E p \in products : p.user_id = 1 /\ HistoryOf(price_history, p.id) = {}
    /\ \E p \in products : p.user_id = 2 /\ HistoryOf(price_history, p.id) # {}

\* C15: the commit of a delete removes the Product and every observation of
\* it at once: afterwards no observation with its product_id remains, and the
\* other Products and their observations are as they were.
C15_DeleteCascades ==
    [][(deleting.pc = "loaded" /\ deleting'.pc = "idle")
          => /\ products' = {r \in products : r.id # deleting.row.id}
             /\ price_history' = {h \in price_history :
                                     h.product_id # deleting.row.id}]_vars

\* C16: observations are immutable. Every committed observation is found
\* unchanged after every step, unless the step removes it together with the
\* Product it belongs to.
C16_ObservationsImmutable ==
    [][\A h \in price_history :
          \/ h \in price_history'
          \/ /\ \A o \in price_history' : o.id # h.id
             /\ \E p \in products :
                   /\ p.id = h.product_id
                   /\ \A q \in products' : q.id # p.id]_vars

\* C16 witness: a Product has an observation from an on-demand fetch and a
\* later one from a sweep, both in the store after the sweep went on
C16_Witness ==
    /\ event = "refreshed"
    /\ \E p \in products :
          \E h \in HistoryOf(price_history, p.id) :
             \E o \in HistoryOf(price_history, p.id) : h.timestamp < o.timestamp

\* C17: the observations of a Product are an append log in timestamp order:
\* an observation that a step commits is not earlier than any observation the
\* Product had before the step.
C17_AppendLogMonotone ==
    [][\A h \in price_history' \ price_history :
          \A o \in price_history :
             o.product_id = h.product_id => o.timestamp <= h.timestamp]_vars

\* C17 witness: a Product refreshed by a sweep and then fetched on demand has
\* three observations, no two of the same instant
C17_Witness ==
    /\ event = "200"
    /\ \E p \in products :
          /\ Cardinality(HistoryOf(price_history, p.id)) = 3
          /\ Cardinality({h.timestamp : h \in HistoryOf(price_history, p.id)}) = 3

\* the call is the one of this active configuration
CallOf(c) ==
    [user_id |-> c.user_id, provider_name |-> c.provider_name,
     api_key |-> c.api_key, model_name |-> c.model_name]

\* the calls an owner's own configuration allows: those of the owner's active
\* configurations, or the default provider when the owner has none
OwnCalls(owner) ==
    LET own == {c \in ActiveConfigs(provider_configs) : c.user_id = owner}
    IN  IF own # {} THEN {CallOf(c) : c \in own} ELSE {DefaultCall}

\* C18: the extraction for a Product of owner A calls the provider with A's
\* active configuration, or the default provider when A has none; the
\* configuration another owner saved is never used.
C18_OwnerConfigOnly ==
    [][/\ \A f \in FetchSlots :
             (fetch[f].pc = "rendering" /\ fetch'[f].pc = "extracting")
                => fetch'[f].call \in OwnCalls(fetch[f].owner)
       /\ \A s \in SweepSlots :
             (sweep[s].pc = "rendering" /\ sweep'[s].pc = "extracting")
                => sweep'[s].call \in OwnCalls(sweep[s].snap.user_id)]_vars

\* C19: with no active configuration and no GOOGLE_API_KEY the extraction
\* fails before any provider is called and nothing is written (the request is
\* answered, the sweep item logged as failed); with no active configuration
\* and the key set, the default provider is called.
C19_NoProviderFails ==
    [][/\ \A f \in FetchSlots :
             (fetch[f].pc = "rendering" /\ fetch'[f] # fetch[f]
                 /\ ActiveConfigs(provider_configs) = {})
                => IF env_key
                   THEN fetch'[f].pc = "extracting" => fetch'[f].call = DefaultCall
                   ELSE /\ fetch'[f] = IdleFetch
                        /\ event' \in {"400", "502"}
                        /\ StoreUnchanged
       /\ \A s \in SweepSlots :
             (sweep[s].pc = "rendering" /\ sweep'[s] # sweep[s]
                 /\ ActiveConfigs(provider_configs) = {})
                => IF env_key
                   THEN sweep'[s].pc = "extracting" => sweep'[s].call = DefaultCall
                   ELSE /\ sweep'[s].pc # "extracting"
                        /\ sweep'[s].call = NoCall
                        /\ event' = "failed"
                        /\ StoreUnchanged]_vars

\* C19 witness: without a configuration and without the key a request for a
\* tracked Product was answered 502
C19_Witness ==
    /\ ~env_key
    /\ ActiveConfigs(provider_configs) = {}
    /\ event = "502"
    /\ fetch[1] = IdleFetch
    /\ sweep[1].pc = "idle"
    /\ products # {}

\* a provider answer that is not JSON even without one pair of code fences,
\* lacks a required field, or has a stock status outside the closed set
Malformed(r) ==
    \/ ~r.json
    \/ r.fences > 1
    \/ r.fields # RequiredFields
    \/ r.stock \notin StockStatuses

\* C20: a malformed provider answer is parsed at most twice (once more after
\* stripping code fences) and then fails the extraction: the request is
\* answered 502, the sweep item logged as failed, and nothing is written.
C20_MalformedNeverPersisted ==
    [][/\ reply'.parses <= 2
       /\ \A f \in FetchSlots :
             (fetch[f].pc = "extracting" /\ Answered(f) /\ Malformed(reply'))
                => (event' = "502" /\ StoreUnchanged)
       /\ \A s \in SweepSlots :
             (sweep[s].pc = "extracting" /\ ItemEnds(s) /\ Malformed(reply'))
                => (event' = "failed" /\ StoreUnchanged)]_vars

\* C25: the on-demand fetch overwrites an existing Product as a sweep item
\* does. When a request that found its Product is answered 200, the Product's
\* title, domain, stock status and last_checked are those the assignments of
\* a sweep item would give the same row for the same extractor result.
C25_SameOverwrite ==
    [][\A f \in FetchSlots :
          (Answered(f) /\ event' = "200")
             => \A r \in RowsOf(products, fetch[f].owner, fetch[f].url) :
                   \A e \in Extractions :
                      LET after == RowById(products', r.id)
                          item  == SweepAssign(r, e, clock')
                      IN  (/\ after.title = e.title
                           /\ after.stock_status = e.stock_status
                           /\ AppendsOne(r.id, e, clock'))
                             => /\ after.title = item.title
                                /\ after.domain = item.domain
                                /\ after.stock_status = item.stock_status
                                /\ after.last_checked = item.last_checked]_vars

\* C21: no observation in the store has a price below zero, whatever the
\* extractor returns to the sweeps and the on-demand fetches.
C21_PriceNonNegative ==
    \A h \in price_history : h.price >= 0

C23_SweepCompletes ==
    /\ \A s \in SweepSlots : Running(sweep[s]) ~> ~Running(sweep[s])
    /\ [][\A s \in SweepSlots :
             (Running(sweep[s]) /\ ~Running(sweep'[s]))
                => sweep[s].attempted = sweep[s].loaded]_vars

\* C26: the lines a sweep logs add up. When a sweep stops, the number of its
\* "Refreshed product" and "Failed to refresh product" lines, the one of its
\* last item included, is the number of products it loaded.
C26_SummaryAddsUp ==
    [][\A s \in SweepSlots :
          (Running(sweep[s]) /\ ~Running(sweep'[s]))
             => /\ event' \in {"refreshed", "failed"}
                /\ sweep[s].logged + 1 = sweep[s].loaded]_vars

\* C24: a shutdown or a cancellation leaves every item whole. Each step of a
\* sweep either leaves the store as it is, or commits the observation of the
\* current product together with the product's last_checked and touches no
\* other row; the step that cancels the sweep leaves the store as it is.
C24_ShutdownAtomic ==
    [][\A s \in SweepSlots :
          (Running(sweep[s]) /\ sweep'[s] # sweep[s])
             => /\ \/ StoreUnchanged
                   \/ /\ event' = "refreshed"
                      /\ \E h \in price_history' \ price_history :
                            /\ price_history' = price_history \cup {h}
                            /\ h.product_id = Head(sweep[s].todo)
                            /\ h.timestamp = clock'
                      /\ RowById(products', Head(sweep[s].todo)).last_checked = clock'
                      /\ \A r \in products :
                            r.id # Head(sweep[s].todo) => r \in products'
                      /\ Cardinality(products') = Cardinality(products)
                /\ event' = "cancelled" => StoreUnchanged]_vars

\* C24 witness: a sweep was cancelled after it had committed an item: the
\* Product has the observation and the last_checked of that item
C24_Witness ==
    /\ event = "cancelled"
    /\ ~Running(sweep[1])
    /\ \E p \in products :
          /\ Cardinality(HistoryOf(price_history, p.id)) = 2
          /\ \E h \in HistoryOf(price_history, p.id) :
                h.timestamp = p.last_checked /\ h.timestamp = clock

\* C27: the trigger is fire-and-forget. The step that starts a manual sweep
\* answers 202 while the sweep has attempted nothing and the store is as it
\* was; 202 is the trigger's only answer; and what a running sweep reports
\* afterwards is a log line, never an HTTP status.
C27_TriggerFireAndForget ==
    [][/\ \A s \in SweepSlots :
             (sweep'[s].origin = "manual" /\ sweep[s].origin # "manual")
                => /\ event' = "202"
                   /\ StoreUnchanged
                   /\ sweep'[s].pc = "pending"
                   /\ sweep'[s].attempted = 0
                   /\ sweep'[s].logged = 0
       /\ (event' = "202" /\ event # "202")
             => (StoreUnchanged /\ fetch' = fetch /\ deleting' = deleting)
       /\ \A s \in SweepSlots :
             (Running(sweep[s]) /\ sweep'[s] # sweep[s])
                => event' \in {event, "refreshed", "failed", "raised", "cancelled"}]_vars

\* C27 witness: the trigger was answered 202 and its sweep over two products
\* has not started its first item
C27_Witness ==
    /\ event = "202"
    /\ sweep[1].origin = "manual"
    /\ sweep[1].pc = "pending"
    /\ sweep[1].loaded = 2

RECURSIVE TextsIn(_, _)
TextsIn(node, hidden) ==
    IF node.tag = "#text"
    THEN {[s |-> node.s, n |-> node.n, hidden |-> hidden]}
    ELSE UNION { TextsIn(node.kids[i],
                         hidden \/ node.tag \in {"script", "style", "noscript",
                                                  "footer", "nav"}) :
                   i \in 1 .. Len(node.kids) }

\* the page of the scenario: a script, a nav and a paragraph
ScenarioPage ==
    Element("body", <<Element("script", <<TextNode("js", 9000)>>),
                      Element("nav", <<Element("p", <<TextNode("menu", 5)>>)>>),
                      Element("p", <<TextNode("title", 5)>>)>>)

\* C29: once a page is normalized, the output holds no text from inside a
\* script, style, noscript, footer or nav element, whatever the depth; unless
\* the budget cut it, it holds every non-blank text of the other elements in
\* full; for the page with a script, a nav and a paragraph it is the
\* paragraph's text alone; and normalizing the same page again gives the same
\* output.
C29_NormalizerDrops ==
    /\ [](html_content # NoPrompt =>
            /\ \A t \in TextsIn(page_content, FALSE) :
                  /\ t.hidden =>
                        \A i \in 1 .. Len(cleaned) : cleaned[i].s # t.s
                  /\ (~t.hidden /\ t.n > 0 /\ Chars(cleaned) < MAX_CHARS) =>
                        \E i \in 1 .. Len(cleaned) :
                            cleaned[i] = [s |-> t.s, n |-> t.n]
            /\ page_content = ScenarioPage =>
                  cleaned = <<[s |-> "title", n |-> 5]>>)
    /\ [][cleaned # <<>> => cleaned' = cleaned]_vars

\* the page with a script, a nav and a paragraph has been normalized
C29_Witness ==
    /\ page_content = ScenarioPage
    /\ html_content # NoPrompt
    /\ cleaned = <<[s |-> "title", n |-> 5]>>

\* C30: the text in the provider's prompt is the normalizer's output, whole,
\* and no longer than the budget.
C30_TruncatedOnce ==
    html_content # NoPrompt =>
        /\ html_content.text = cleaned
        /\ Chars(html_content.text) <= MAX_CHARS

\* the Product whose render-extract-persist pipeline the sweep of slot s is in
InFlight(s) ==
    IF sweep[s].pc \in {"rendering", "extracting"} THEN Head(sweep[s].todo) ELSE 0

\* C31: no two sweeps, however they were started, are in the pipeline of the
\* same Product at the same time.
C31_OnePipelinePerProduct ==
    \A s, t \in SweepSlots :
        (s # t /\ InFlight(s) # 0) => InFlight(s) # InFlight(t)

\* C32: in every committed store state every observation references a
\* Product that exists.
C32_NoOrphanObservation ==
    \A h \in price_history : \E p \in products : p.id = h.product_id

\* C33: in every committed store state every Product has an observation; a
\* step that commits a Product row that was not there commits an observation
\* of it with it, and a step that removes an observation removes its Product.
C33_ProductHasObservation ==
    /\ [](\A p \in products : HistoryOf(price_history, p.id) # {})
    /\ [][\A p \in products' :
              (\A q \in products : q.id # p.id) =>
                  \E h \in price_history' \ price_history : h.product_id = p.id]_vars
    /\ [][\A h \in price_history \ price_history' :
              \A p \in products' : p.id # h.product_id]_vars

\* a Product was tracked and deleted with its observation, and the one
\* Product of the store was committed after it with its first observation
C33_Witness ==
    /\ Cardinality(products) = 1
    /\ Cardinality(price_history) = 1
    /\ deleting = IdleDelete
    /\ \E p \in products, h \in price_history :
          h.product_id = p.id /\ h.timestamp = 2 /\ p.last_checked = 2

\* C34: the title and the stock status of every committed Product are those
\* of the extraction that produced its latest observation.
C34_LastCommitterWins ==
    \A p \in products :
        HistoryOf(price_history, p.id) # {} =>
            \E e \in Extractions :
                /\ Latest(HistoryOf(price_history, p.id)).price = e.price
                /\ p.title = e.title
                /\ p.stock_status = e.stock_status

\* the provider's answer of this step names a stock status outside the set
OutsideStock ==
    /\ reply'.json
    /\ "stock_status" \in reply'.fields
    /\ reply'.stock \notin {"In Stock", "Out of Stock", "Unknown"}

\* C35: the stock status of every committed Product is In Stock, Out of Stock
\* or Unknown; a request or a sweep item whose extraction names another stock
\* status fails (502, or the item logged as failed) and leaves the store as it
\* was; every listed view carries the stored status, and Unknown in the place
\* of an empty one.
C35_StockStatusClosed ==
    /\ [](\A p \in products :
            /\ p.stock_status \in {"In Stock", "Out of Stock", "Unknown"}
            /\ HistoryOf(price_history, p.id) # {} =>
                  SerializeTrackedProduct(price_history,
                        [p EXCEPT !.stock_status = ""]).stock_status = "Unknown")
    /\ [][(fetch[1].pc = "extracting" /\ fetch'[1].pc # "extracting" /\ OutsideStock)
              => (StoreUnchanged /\ event' = "502")]_vars
    /\ [][(sweep[1].pc = "extracting" /\ sweep'[1].pc # "extracting" /\ OutsideStock)
              => (StoreUnchanged /\ event' = "failed")]_vars
    /\ [][listing' # listing =>
              \A v \in listing'.views :
                 \E p \in products : p.id = v.id /\ v.stock_status = p.stock_status]_vars

\* an answer with a stock status of its own was refused with 502, and the
\* Product tracked before is listed with its status
C35_Witness ==
    /\ reply.json /\ reply.stock \notin {"In Stock", "Out of Stock", "Unknown"}
    /\ "stock_status" \in reply.fields
    /\ event = "502"
    /\ products # {}
    /\ listing.views # {}
    /\ \A v \in listing.views : v.stock_status = "In Stock"

\* a DELETE request is taken up in this step
DeleteAsked ==
    /\ deleting.pc # "loaded"
    /\ deleting' # deleting

\* C36: a listing holds only views of Products of the caller; a DELETE for a
\* Product of another owner answers 404 and leaves the store unchanged, and
\* the commit of a delete removes Products and observations of the caller's
\* Product only.
C36_OwnerIsolation ==
    /\ [][listing' # listing =>
              \A v \in listing'.views :
                 \E p \in products : p.id = v.id /\ p.user_id = listing'.owner]_vars
    /\ [][(DeleteAsked /\ \E p \in products : /\ p.id = deleting'.asked
                                               /\ p.user_id # deleting'.by)
              => /\ deleting'.pc = "refused"
                 /\ event' = "404"
                 /\ StoreUnchanged]_vars
    /\ [][(deleting.pc = "loaded" /\ deleting'.pc # "loaded")
              => /\ \A p \in products \ products' :
                       p.id = deleting.asked /\ p.user_id = deleting.by
                 /\ \A h \in price_history \ price_history' :
                       h.product_id = deleting.row.id]_vars

\* user 1 asked to delete the Product of user 2 and got 404; both users'
\* Products are in the store, and user 1 is listed their own
C36_Witness ==
    /\ deleting.pc = "refused"
    /\ deleting.by = 1
    /\ event = "404"
    /\ \E p \in products : p.id = deleting.asked /\ p.user_id = 2
    /\ \E p \in products : p.user_id = 1
    /\ listing.owner = 1 /\ listing.views # {}

\* C37: a user has at most one ProviderConfig per provider name and every
\* row is active; after a save answered 200 the caller's row for that provider
\* holds the credential and the model of that save, and the rows of the other
\* users are as they were; a save for a provider without an adapter answers
\* 400 and changes nothing.
C37_OneConfigPerProvider ==
    /\ [](\A c, d \in provider_configs :
            /\ c.is_active
            /\ (c.user_id = d.user_id /\ c.provider_name = d.provider_name) => c = d)
    /\ [](saved.status = "200" =>
            [user_id |-> saved.user_id, provider_name |-> saved.provider_name,
             api_key |-> saved.api_key, model_name |-> saved.model_name,
             is_active |-> TRUE] \in provider_configs)
    /\ [][saved'.status = "200" =>
              {c \in provider_configs' : c.user_id # saved'.user_id}
                 = {c \in provider_configs : c.user_id # saved'.user_id}]_vars
    /\ [][saved'.status = "400" =>
              /\ saved'.provider_name \notin {"groq"}
              /\ provider_configs' = provider_configs]_vars
    /\ [](saved.provider_name \notin {"", "groq"} => saved.status = "400")

\* both users have a configuration, and user 1 has just saved another
\* credential and model
C37_Witness ==
    /\ saved.status = "200" /\ saved.user_id = 1
    /\ saved.api_key = "k2" /\ saved.model_name = "m2"
    /\ \E c \in provider_configs : c.user_id = 2 /\ c.api_key = "k1"
    /\ Cardinality(provider_configs) = 2

\* C38: a verify-otp call that supplied the stored OTP of an unregistered
\* email, before it expired, ends with the User of that email created and the
\* pending registration removed.
C38_SignupCompletes ==
    [][\A a \in AuthSlots :
          (/\ auth[a].op = "verify" /\ auth[a].pc = "verified"
           /\ auth'[a] = IdleAuth
           /\ pending[auth[a].email] = auth[a].otp
           /\ ~FindUser(users, auth[a].email))
             => /\ FindUser(users', auth[a].email)
                /\ pending'[auth[a].email] = NoOtp]_vars

\* C39: no two Users share an email; a step of a verify-otp request adds a
\* User only for an email with a pending registration whose OTP is the one
\* supplied; and a verify-otp request whose OTP differs from the stored one is
\* answered 400 with users and the pending registrations unchanged. Two
\* requests at a time, of any kind and for any email, take their steps in any
\* order.
C39_OneUserPerEmail ==
    /\ [](\A u, v \in users : u.email = v.email => u = v)
    /\ [][\A a \in AuthSlots :
              (auth[a].op = "verify" /\ auth'[a] # auth[a] /\ users' # users)
                 => /\ pending[auth[a].email] # NoOtp
                    /\ pending[auth[a].email] = auth[a].otp]_vars
    /\ [][\A a \in AuthSlots :
              (/\ auth[a].op = "verify" /\ auth[a].pc = "read"
               /\ auth'[a] # auth[a]
               /\ pending[auth[a].email] # auth[a].otp)
                 => /\ event' = "400"
                    /\ auth'[a] = IdleAuth
                    /\ users' = users
                    /\ pending' = pending]_vars

\* two register calls for a@x passed the check side by side; one has created
\* the User and the other is about to fail at its INSERT, while a verify-otp
\* call for b@x with an OTP other than the pending one is about to be refused
C39_Witness ==
    /\ \E u \in users : u.email = "a@x"
    /\ \E a, b \in AuthSlots :
          /\ auth[a].op = "register" /\ auth[a].pc = "adding"
          /\ auth[a].email = "a@x"
          /\ auth[b].op = "verify" /\ auth[b].pc = "read"
          /\ auth[b].email = "b@x"
          /\ pending["b@x"] # NoOtp
          /\ pending["b@x"] # auth[b].otp

\* the delete-confirm request of slot a commits in this step
Confirmed(a) ==
    /\ auth[a].op = "confirm" /\ auth[a].pc = "loaded"
    /\ auth'[a] = IdleAuth

\* C40: a User is removed only by the commit of a delete-confirm request of
\* that user, which was let through with the OTP stored for the user; after
\* that commit the User, the Products of the user, the observations of those
\* Products and the user's ProviderConfigs are gone, and the request has taken
\* the OTP out of the store before; a request answered 400 (a delete-confirm
\* with another OTP, or with none stored) changes no data.
C40_AccountDeletion ==
    /\ [][\A u \in users \ users' :
              \E a \in AuthSlots : Confirmed(a) /\ auth[a].user = u.id]_vars
    /\ [][\A a \in AuthSlots :
              (auth[a] = IdleAuth /\ auth'[a].op = "confirm")
                 => deletion[auth'[a].user] = auth'[a].otp]_vars
    /\ [][\A a \in AuthSlots :
              Confirmed(a) =>
                 /\ \A u \in users' : u.id # auth[a].user
                 /\ \A r \in products' : r.user_id # auth[a].user
                 /\ \A h \in price_history' :
                       \A r \in products :
                          r.user_id = auth[a].user => h.product_id # r.id
                 /\ \A c \in provider_configs' : c.user_id # auth[a].user]_vars
    /\ [][\A a \in AuthSlots :
              (auth[a].op = "confirm" /\ auth[a].pc = "verified"
                 /\ auth'[a].pc = "loaded")
                 => deletion'[auth[a].user] = NoOtp]_vars
    /\ [][(event' = "400" /\ event # "400")
              => /\ StoreUnchanged
                 /\ users' = users
                 /\ provider_configs' = provider_configs
                 /\ deletion' = deletion]_vars

====
